---------------------------- MODULE Spec2Model ----------------------------
(***************************************************************************)
(* A model of the KG-RAG orchestration core:                               *)
(*   - the graph_query tool (kg_rag/tools/graph_query.py): normalisation,  *)
(*     read-only validation, automatic LIMIT and the repair calls;         *)
(*   - the agent turn (kg_rag/agent/graph.py): the plan / execute /        *)
(*     aggregate / judge / respond graph, the concurrent sub-task runs of  *)
(*     execute_node and the ReAct loop each of them executes.              *)
(*                                                                         *)
(* Texts are sequences of lexical tokens.  Two tokens that follow each     *)
(* other are separated by blank space, except that the token "NL" is the   *)
(* line break itself.                                                      *)
(***************************************************************************)
EXTENDS Integers, Sequences, FiniteSets, TLC

VARIABLES
    \* ---- one graph_query call ----
    gqPc,          \* the await the call is suspended at, or "done"
    gqIssue,       \* the validation issue of the last candidate ("" = none)
    gqCypher,      \* the query text store.query_cypher is executing (<<>>: no query in flight)
    gqStoreCalls,  \* number of store.query_cypher invocations so far
    gqLlmCalls,    \* number of llm.ainvoke invocations so far
    gqResult,      \* the string the tool returned ("" while running)
    gqAllUnsafe,   \* history: every model answer so far held a forbidden keyword outside comments
    gqAllNormUnsafe, \* history: the same, of every answer after _normalize_cypher
    \* ---- the process configuration (kg_rag/config.py) ----
    agent_concurrency,   \* settings.agent_concurrency
    \* ---- the turns in flight, each a run of the agent graph ----
    node,                \* turn -> the graph node that runs next ("END": finished)
    iteration,           \* turn -> AgentState.iteration
    max_iterations,      \* turn -> AgentState.max_iterations
    todos,               \* turn -> AgentState.todos
    intermediate_results,\* turn -> AgentState.intermediate_results
    final_answer,        \* turn -> AgentState.final_answer
    verdict,             \* turn -> the Judge's last verdict (the [Quality Review] message)
    writer,              \* turn -> the stream writer of the run: "none", "ok" or "flaky"
    gathering,           \* turn -> execute_node is suspended in asyncio.gather
    sub,                 \* turn -> the _run_one tasks of the execute_node call under way
    sem,                 \* turn -> free permits of that call's semaphore
    doneOrder,           \* turn -> the order in which its _run_one tasks ended
    \* ---- history of each turn ----
    plans,               \* turn -> number of plan_node calls that returned
    judges,              \* turn -> number of judge_node calls that returned
    sawSufficient,       \* turn -> some verdict began with the text SUFFICIENT
    sawSufficientAnyCase,\* turn -> some verdict began with SUFFICIENT in any letter case
    failedIn,            \* turn -> the node whose exception ended the turn ("" = none)
    \* ---- one _run_react_loop call, observed ----
    max_steps,           \* the step cap max_steps of _run_react_loop
    run,                 \* history: the calls task 1 of turn 1 made, and what its loop returned
    nodeRuns,            \* history: how often execute_node and aggregate_node returned in turn 1
    \* ---- the ChatService calls on one session (kg_rag/api/service.py) ----
    ask,                 \* call -> the locals of ChatService.ask / ask_stream, and what the caller got
    messages,            \* the rows of the session in the messages table, by message_id
    call,                \* the graph-store call in progress under its retry decorator
    stream,              \* the plan, judge or respond step in progress and its stream events
    chunker,             \* the chunk_by_tokens call in progress
    \* ---- one extract_entities_and_relations call (kg_rag/ingest/extract.py) ----
    ingPc,         \* the await the call is suspended at, "done" or "raised"
    ingEntities,   \* the entity list `merged`
    ingRelations,  \* the relation list `all_relations`
    ingNameMap,    \* the dict `name_map`
    ingFirst       \* history: what the first dedup_by_alias_cross_ref call returned

gqVars == <<gqPc, gqIssue, gqCypher, gqStoreCalls, gqLlmCalls, gqResult,
            gqAllUnsafe, gqAllNormUnsafe>>

graphVars == <<agent_concurrency, node, iteration, max_iterations, todos,
               intermediate_results, final_answer, verdict, writer, gathering,
               sub, sem, doneOrder, plans, judges, sawSufficient,
               sawSufficientAnyCase, failedIn, max_steps, run, nodeRuns>>

chatVars == <<ask, messages>>

storeVars == <<call, stream, chunker>>

agentVars == <<graphVars, chatVars, storeVars>>

ingestVars == <<ingPc, ingEntities, ingRelations, ingNameMap, ingFirst>>

vars == <<gqVars, agentVars, ingestVars>>

-----------------------------------------------------------------------------
(* Bounds *)

\* Longest model answer, in tokens.
MaxLen == 3

-----------------------------------------------------------------------------
(* Texts *)

\* "CREATE" stands for the whole-word write keywords of _CYPHER_WRITE_KEYWORDS,
\* "APOC" for a word that starts an "apoc." procedure name, "CH" for the
\* truncated MATCH, "TAG" for a language tag ("cypher:"), "FENCE" for "```",
\* "LC" for "//", "BO" for "/*", "BC" for "*/", "SEMI" for ";".
Tok == {"MATCH", "RETURN", "LIMIT", "CREATE", "APOC", "CH", "TAG", "FENCE",
        "LC", "BO", "BC", "NL", "SEMI"}

\* Tokens made of letters at their start: what [A-Za-z]+ matches.
Alpha == {"MATCH", "RETURN", "LIMIT", "CREATE", "APOC", "CH", "TAG"}

Texts == UNION {[1..n -> Tok] : n \in 0..MaxLen}

Range(s) == {s[i] : i \in 1..Len(s)}

\* Positions of token t in s.
Pos(s, t) == {i \in 1..Len(s) : s[i] = t}

Min(S) == CHOOSE x \in S : \A y \in S : x <= y
Max(S) == CHOOSE x \in S : \A y \in S : x >= y

\* str.strip(): leading and trailing white space (here: line breaks) removed.
Strip(s) ==
    LET keep == {i \in 1..Len(s) : s[i] # "NL"}
    IN  IF keep = {} THEN <<>> ELSE SubSeq(s, Min(keep), Max(keep))

\* str.rstrip()
RStrip(s) ==
    LET keep == {i \in 1..Len(s) : s[i] # "NL"}
    IN  IF keep = {} THEN <<>> ELSE SubSeq(s, 1, Max(keep))

\* text.split("\n"): the lines of s, as a sequence of texts.
RECURSIVE SplitLines(_)
SplitLines(s) ==
    IF Pos(s, "NL") = {} THEN <<s>>
    ELSE LET i == Min(Pos(s, "NL"))
         IN  <<SubSeq(s, 1, i - 1)>> \o SplitLines(SubSeq(s, i + 1, Len(s)))

\* "\n".join(lines)
RECURSIVE JoinLines(_)
JoinLines(ls) ==
    IF ls = <<>> THEN <<>>
    ELSE IF Len(ls) = 1 THEN ls[1]
    ELSE ls[1] \o <<"NL">> \o JoinLines(Tail(ls))

\* utils.strip_code_fences: lines whose stripped content starts with ``` are dropped.
strip_code_fences(text) ==
    IF "FENCE" \notin Range(text) THEN text
    ELSE JoinLines(SelectSeq(SplitLines(text),
                             LAMBDA l : ~(l # <<>> /\ l[1] = "FENCE")))

\* The index of the first non-blank line of ls from i on (Len(ls)+1 if none).
RECURSIVE SkipBlank(_, _)
SkipBlank(ls, i) ==
    IF i <= Len(ls) /\ ls[i] = <<>> THEN SkipBlank(ls, i + 1) ELSE i

\* _FIRST_KEYWORD_PATTERN.match(text): the leading word of the text, "" if the
\* text does not begin (after white space) with letters.
FirstKeyword(text) ==
    LET t == Strip(text)
    IN  IF t # <<>> /\ t[1] \in Alpha THEN t[1] ELSE ""

_normalize_cypher(raw) ==
    LET text0 == Strip(strip_code_fences(raw))
    IN  IF text0 = <<>> THEN text0
        ELSE LET lines == SplitLines(text0)
                 i0    == SkipBlank(lines, 1)
                 i1    == IF i0 <= Len(lines) /\ lines[i0][1] = "TAG"
                          THEN SkipBlank(lines, i0 + 1) ELSE i0
                 text1 == Strip(JoinLines(SubSeq(lines, i1, Len(lines))))
             IN  IF text1 = <<>> THEN text1
                 ELSE IF FirstKeyword(text1) = "CH"
                      THEN <<"MATCH">> \o Tail(text1)
                      ELSE text1

\* re.sub(r"/\*.*?\*/", " ", cypher, flags=DOTALL): every "/*" up to the
\* nearest "*/" after it is replaced by blank space; a "/*" that is never
\* closed stays.
RECURSIVE StripBlockComments(_)
StripBlockComments(s) ==
    IF Pos(s, "BO") = {} THEN s
    ELSE LET i  == Min(Pos(s, "BO"))
             cl == {j \in Pos(s, "BC") : j > i}
         IN  IF cl = {} THEN s
             ELSE SubSeq(s, 1, i - 1)
                    \o StripBlockComments(SubSeq(s, Min(cl) + 1, Len(s)))

\* re.sub(r"//[^\n]*", " ", cypher): every "//" up to the end of its line.
RECURSIVE StripLineComments(_)
StripLineComments(s) ==
    IF Pos(s, "LC") = {} THEN s
    ELSE LET i  == Min(Pos(s, "LC"))
             nl == {j \in Pos(s, "NL") : j > i}
         IN  IF nl = {} THEN SubSeq(s, 1, i - 1)
             ELSE SubSeq(s, 1, i - 1)
                    \o StripLineComments(SubSeq(s, Min(nl), Len(s)))

_strip_cypher_comments(cypher) == StripLineComments(StripBlockComments(cypher))

\* _WRITE_PATTERN and _APOC_PATTERN
Forbidden == {"CREATE", "APOC"}
HasForbidden(s) == Range(s) \cap Forbidden # {}

_CYPHER_START_KEYWORDS == {"MATCH", "RETURN"}

\* _validate_read_cypher with the leading-keyword check made before the
\* keyword screen.
ValidateLeadingFirst(cypher) ==
    LET stripped == Strip(_strip_cypher_comments(cypher))
    IN  IF stripped = <<>> THEN "empty query"
        ELSE IF FirstKeyword(stripped) = "" THEN "missing leading clause keyword"
        ELSE IF FirstKeyword(stripped) \notin _CYPHER_START_KEYWORDS
             THEN "unexpected leading clause keyword"
        ELSE IF HasForbidden(stripped) THEN "unsafe keyword detected"
        ELSE IF "RETURN" \notin Range(stripped) THEN "missing RETURN clause"
        ELSE ""

\* The issue of a candidate query, "" when it is valid.
_validate_read_cypher(cypher) ==
    LET stripped == Strip(_strip_cypher_comments(cypher))
    IN  IF stripped = <<>> THEN "empty query"
        ELSE IF HasForbidden(stripped) THEN "unsafe keyword detected"
        ELSE IF FirstKeyword(stripped) = "" THEN "missing leading clause keyword"
        ELSE IF FirstKeyword(stripped) \notin _CYPHER_START_KEYWORDS
             THEN "unexpected leading clause keyword"
        ELSE IF "RETURN" \notin Range(stripped) THEN "missing RETURN clause"
        ELSE ""

\* str.rstrip(";")
RStripSemi(s) ==
    IF s # <<>> /\ s[Len(s)] = "SEMI" THEN SubSeq(s, 1, Len(s) - 1) ELSE s

\* The appended " LIMIT 50" is the one token "LIMIT".
_ensure_limit(cypher) ==
    IF "LIMIT" \notin Range(_strip_cypher_comments(cypher))
    THEN RStripSemi(RStrip(cypher)) \o <<"LIMIT">>
    ELSE cypher

\* graph_query._postprocess: the query and its issue.
_postprocess(raw) ==
    LET cypher0 == _normalize_cypher(raw)
        issue   == _validate_read_cypher(cypher0)
    IN  IF issue # "" THEN [cypher |-> cypher0, issue |-> issue]
        ELSE [cypher |-> _ensure_limit(cypher0), issue |-> ""]

-----------------------------------------------------------------------------
(* One graph_query call *)

Rejected == "Query rejected: only read operations are allowed."
Failed   == "Graph query failed. Please try rephrasing your question."
NoRows   == "No results found in the knowledge graph."
Rows     == "rows"

\* What store.query_cypher may do: return rows, return nothing, raise a
\* Neo.ClientError.Statement.* error, raise a ClientError of another class,
\* raise anything else.
StoreOutcomes == {"rows", "empty", "statement_error", "client_error", "other_error"}

GQStart ==
    /\ gqPc = "generate"
    /\ gqIssue = ""
    /\ gqCypher = <<>>
    /\ gqStoreCalls = 0
    /\ gqLlmCalls = 1
    /\ gqResult = ""
    /\ gqAllUnsafe = TRUE
    /\ gqAllNormUnsafe = TRUE

\* The bookkeeping of one model answer.
Answered(a) ==
    /\ gqAllUnsafe' = (gqAllUnsafe /\ HasForbidden(_strip_cypher_comments(a)))
    /\ gqAllNormUnsafe' =
         (gqAllNormUnsafe /\ HasForbidden(_strip_cypher_comments(_normalize_cypher(a))))

\* The tool returns msg.
Return(msg) ==
    /\ gqPc' = "done"
    /\ gqResult' = msg

\* store.query_cypher(cypher) is invoked.
Execute(cypher, pc) ==
    /\ gqPc' = pc
    /\ gqCypher' = cypher
    /\ gqStoreCalls' = gqStoreCalls + 1

\* What a failed repair returns.
RepairFailure(issue) ==
    IF issue = "unsafe keyword detected" THEN Return(Rejected) ELSE Return(Failed)

\* The first model answer arrives (lines 205-224, 233-237).
GQFirstAnswer(a) ==
    /\ gqPc = "generate"
    /\ UNCHANGED <<agentVars, ingestVars>>
    /\ Answered(a)
    /\ LET p == _postprocess(Strip(a))
       IN  /\ gqIssue' = p.issue
           /\ IF p.issue # ""
              THEN /\ gqPc' = "repair"
                   /\ gqLlmCalls' = gqLlmCalls + 1
                   /\ UNCHANGED <<gqCypher, gqStoreCalls, gqResult>>
              ELSE /\ Execute(p.cypher, "execute")
                   /\ UNCHANGED <<gqLlmCalls, gqResult>>

\* The answer to the validation repair prompt arrives (lines 224-237).
GQRepairAnswer(a) ==
    /\ gqPc = "repair"
    /\ UNCHANGED <<agentVars, ingestVars>>
    /\ Answered(a)
    /\ LET p == _postprocess(Strip(a))
       IN  /\ gqIssue' = p.issue
           /\ IF p.issue # ""
              THEN /\ RepairFailure(p.issue)
                   /\ UNCHANGED <<gqCypher, gqStoreCalls, gqLlmCalls>>
              ELSE /\ Execute(p.cypher, "execute")
                   /\ UNCHANGED <<gqLlmCalls, gqResult>>

\* _is_statement_error
\* A classification that takes every error of the store for a statement error.
EveryErrorIsStatementError(o) == o \notin {"rows", "empty"}

_is_statement_error(o) == o = "statement_error"

\* The first store query ends (lines 236-249, 265-274).
GQStoreReturns(o) ==
    /\ gqPc = "execute"
    /\ UNCHANGED <<agentVars, ingestVars>>
    /\ gqCypher' = <<>>
    /\ UNCHANGED <<gqIssue, gqStoreCalls, gqAllUnsafe, gqAllNormUnsafe>>
    /\ IF o = "rows" THEN Return(Rows) /\ UNCHANGED gqLlmCalls
       ELSE IF o = "empty" THEN Return(NoRows) /\ UNCHANGED gqLlmCalls
       ELSE IF ~_is_statement_error(o) THEN Return(Failed) /\ UNCHANGED gqLlmCalls
       ELSE /\ gqPc' = "exec_repair"
            /\ gqLlmCalls' = gqLlmCalls + 1
            /\ UNCHANGED gqResult

\* The answer to the execution repair prompt arrives (lines 249-260).
GQExecRepairAnswer(a) ==
    /\ gqPc = "exec_repair"
    /\ UNCHANGED <<agentVars, ingestVars>>
    /\ Answered(a)
    /\ LET p == _postprocess(Strip(a))
       IN  /\ gqIssue' = p.issue
           /\ IF p.issue # ""
              THEN /\ RepairFailure(p.issue)
                   /\ UNCHANGED <<gqCypher, gqStoreCalls, gqLlmCalls>>
              ELSE /\ Execute(p.cypher, "execute2")
                   /\ UNCHANGED <<gqLlmCalls, gqResult>>

\* The second store query ends (lines 259-274).
GQStore2Returns(o) ==
    /\ gqPc = "execute2"
    /\ UNCHANGED <<agentVars, ingestVars>>
    /\ gqCypher' = <<>>
    /\ UNCHANGED <<gqIssue, gqStoreCalls, gqLlmCalls, gqAllUnsafe, gqAllNormUnsafe>>
    /\ IF o = "rows" THEN Return(Rows)
       ELSE IF o = "empty" THEN Return(NoRows)
       ELSE Return(Failed)

GQNext ==
    \/ \E a \in Texts : GQFirstAnswer(a)
    \/ \E a \in Texts : GQRepairAnswer(a)
    \/ \E o \in StoreOutcomes : GQStoreReturns(o)
    \/ \E a \in Texts : GQExecRepairAnswer(a)
    \/ \E o \in StoreOutcomes : GQStore2Returns(o)

-----------------------------------------------------------------------------
(* graph_query: the query text as the database reads it *)

\* Longest text after the leading MATCH RETURN of an answer of LexTexts.
MaxTail == 5

\* "QUOTE" stands for the quotation mark of a string literal.
LexTok == {"CREATE", "LC", "BO", "BC", "NL", "QUOTE"}

\* Answers of the model that begin as a valid read query and go on with
\* keywords, comment marks, quotation marks and line breaks.
LexTexts ==
    {<<"MATCH", "RETURN">> \o tail : tail \in UNION {[1..n -> LexTok] : n \in 0..MaxTail}}

\* The tokens of a query that the database (session.run) takes as code,
\* reading from left to right: "//" opens a comment up to the end of the
\* line, "/*" one up to the next "*/", a quotation mark a string literal up
\* to the next quotation mark; inside any of them the other marks are text.
RECURSIVE Lexed(_, _)
Lexed(s, mode) ==
    IF s = <<>> THEN <<>>
    ELSE LET c == Head(s)
             rest == Tail(s)
         IN  CASE mode = "line"   -> Lexed(rest, IF c = "NL" THEN "code" ELSE "line")
               [] mode = "block"  -> Lexed(rest, IF c = "BC" THEN "code" ELSE "block")
               [] mode = "string" -> Lexed(rest, IF c = "QUOTE" THEN "code" ELSE "string")
               [] OTHER ->
                    IF c = "LC" THEN Lexed(rest, "line")
                    ELSE IF c = "BO" THEN Lexed(rest, "block")
                    ELSE IF c = "QUOTE" THEN Lexed(rest, "string")
                    ELSE <<c>> \o Lexed(rest, "code")

DbCode(cypher) == Lexed(cypher, "code")

\* One graph_query call whose model answers with a text of LexTexts, up to
\* the end of its first store query.
LexNext ==
    \/ \E a \in LexTexts : GQFirstAnswer(a)
    \/ \E o \in StoreOutcomes : GQStoreReturns(o)

-----------------------------------------------------------------------------
(* Neo4jGraphStore: a call under its retry decorator (storage/neo4j_graph.py) *)

\* stop_after_attempt(3) of _retry_read and _retry_write.
MaxAttempts == 3

\* The exception classes that the decorators retry on.
_TRANSIENT == {"TransientError", "ServiceUnavailable"}

\* What one attempt (one session.run of the method) may do: return, raise
\* a transient error, or raise another error, named as graph_query sees it.
AttemptOutcomes ==
    {"ok"} \cup _TRANSIENT \cup {"statement_error", "client_error", "other_error"}

\* The decorated methods of the store.
ReadMethods  == {"has_node", "get_node", "has_edge", "get_edge", "query_cypher"}
WriteMethods == {"upsert_node", "delete_node", "upsert_edge"}

\* wait_exponential(multiplier=1, min=1, max=10): the seconds to wait after
\* the attempt of that number failed.
wait_exponential(attempt) ==
    Max({1, Min({2 ^ (attempt - 1), 10})})

\* A decorator that also retries after the third failed attempt.
RetryWithoutStop(attempt, outcome) ==
    IF outcome = "ok" THEN "return"
    ELSE IF outcome \in _TRANSIENT THEN "retry"
    ELSE "raise"

\* What tenacity does with the outcome of the attempt of that number: the
\* value is returned; an exception that is not of _TRANSIENT is raised;
\* one of _TRANSIENT is raised (reraise=True) when the attempt was the
\* third, and otherwise the method is called again after the wait.
_retry_read(attempt, outcome) ==
    IF outcome = "ok" THEN "return"
    ELSE IF outcome \notin _TRANSIENT THEN "raise"
    ELSE IF attempt >= MaxAttempts THEN "raise"
    ELSE "retry"

_retry_write(attempt, outcome) ==
    IF outcome = "ok" THEN "return"
    ELSE IF outcome \notin _TRANSIENT THEN "raise"
    ELSE IF attempt >= MaxAttempts THEN "raise"
    ELSE "retry"

Decorated(method, attempt, outcome) ==
    IF method \in ReadMethods THEN _retry_read(attempt, outcome)
    ELSE _retry_write(attempt, outcome)

\* for: the store query of graph_query that the call serves ("": a call of
\* another caller); attempts: how often the method body was entered;
\* errors: what the failed attempts raised, in order; waited: the seconds
\* slept between attempts.
NoCall ==
    [pc |-> "idle", method |-> "", for |-> "", attempts |-> 0, errors |-> <<>>,
     waited |-> 0]

StoreIdle == call = NoCall

\* A caller calls a method of the store: graph_query its query_cypher
\* (graph_query.py:237, 259), another caller (ingestion, the profile) any
\* method, here once graph_query is over.
CallBegins(method) ==
    /\ call.pc \in {"idle", "returned", "raised"}
    /\ IF gqPc \in {"execute", "execute2"}
       THEN method = "query_cypher" /\ call.for # gqPc
       ELSE gqPc = "done"
    /\ call' = [NoCall EXCEPT !.pc = "attempt", !.method = method, !.attempts = 1,
                              !.for = IF gqPc = "done" THEN "" ELSE gqPc]
    /\ UNCHANGED <<gqVars, graphVars, chatVars, ingestVars, stream, chunker>>

\* The attempt in progress ends with that outcome.
AttemptEnds(outcome) ==
    /\ call.pc = "attempt"
    /\ LET decision == Decorated(call.method, call.attempts, outcome)
           failed   == [call EXCEPT !.errors = Append(@, outcome)]
       IN  call' =
             CASE decision = "return" -> [call EXCEPT !.pc = "returned"]
               [] decision = "raise"  -> [failed EXCEPT !.pc = "raised"]
               [] OTHER -> [failed EXCEPT !.pc = "wait"]
    /\ UNCHANGED <<gqVars, graphVars, chatVars, ingestVars, stream, chunker>>

\* The wait before the next attempt is over.
WaitEnds ==
    /\ call.pc = "wait"
    /\ call' = [call EXCEPT !.pc = "attempt", !.attempts = @ + 1,
                            !.waited = @ + wait_exponential(call.attempts)]
    /\ UNCHANGED <<gqVars, graphVars, chatVars, ingestVars, stream, chunker>>

\* The exception that graph_query catches, as _is_statement_error reads
\* it: TransientError and ServiceUnavailable are no ClientError.
Caught(error) == IF error \in _TRANSIENT THEN "other_error" ELSE error

\* What the decorated query_cypher handed to graph_query.
Handed(o) ==
    /\ call.for = gqPc
    /\ \/ call.pc = "returned" /\ o \in {"rows", "empty"}
       \/ call.pc = "raised" /\ o = Caught(call.errors[Len(call.errors)])

\* The answers of the model in these runs: the texts of at most two tokens.
RetryTexts == {a \in Texts : Len(a) <= 2}

RetryNext ==
    \/ \E a \in RetryTexts : GQFirstAnswer(a)
    \/ \E a \in RetryTexts : GQRepairAnswer(a)
    \/ \E m \in ReadMethods \cup WriteMethods : CallBegins(m)
    \/ \E o \in AttemptOutcomes : AttemptEnds(o)
    \/ WaitEnds
    \/ \E o \in StoreOutcomes : Handed(o) /\ GQStoreReturns(o)
    \/ \E a \in RetryTexts : GQExecRepairAnswer(a)
    \/ \E o \in StoreOutcomes : Handed(o) /\ GQStore2Returns(o)

-----------------------------------------------------------------------------
(* plan_node, judge_node, respond_node: the scoped stream events of one step *)

\* Most fragments that one model call yields in these runs.
MaxFragments == 2

StreamNodes == {"plan", "judge", "respond"}

\* The scope of the events of a node.
Scope(nd) ==
    CASE nd = "plan" -> "planning" [] nd = "judge" -> "reviewing" [] OTHER -> "answering"

\* What a chunk of a model stream holds: a piece of reasoning, a piece of
\* content with text in it, a piece of content of white space only.
ChunkKinds == {"reasoning", "content", "space"}

\* _emit_stream_event: the event is handed to the writer, if there is one;
\* what the writer raises is swallowed.  call and k tell which fragment of
\* which model call of the step a delta carries (0 for a reset).
_emit_stream_event(log, w, type, scope, c, k) ==
    IF w = "none" THEN log
    ELSE Append(log, [type |-> type, scope |-> scope, call |-> c, k |-> k])

\* A step that resets no scope.
NoResets(nd) == <<>>

\* The reset events that a node emits before its first model call
\* (lines 385, 794, 896-897).
Resets(nd) ==
    CASE nd = "plan"  -> <<"reasoning_reset">>
      [] nd = "judge" -> <<"content_reset">>
      [] OTHER        -> <<"reasoning_reset", "content_reset">>

RECURSIVE EmitAll(_, _, _, _)
EmitAll(log, w, types, scope) ==
    IF types = <<>> THEN log
    ELSE EmitAll(_emit_stream_event(log, w, Head(types), scope, 0, 0), w, Tail(types), scope)

\* The delta event that a node emits for a chunk of that kind ("": none):
\* plan_node streams with a reasoning scope only (lines 387-391, 399-416),
\* judge_node reads chunk.content only (lines 798-809), respond_node streams
\* both (lines 899-904, 917-939).
DeltaFor(nd, kind) ==
    CASE nd = "plan"  -> IF kind = "reasoning" THEN "reasoning_delta" ELSE ""
      [] nd = "judge" -> IF kind = "reasoning" THEN "" ELSE "content_delta"
      [] OTHER        -> IF kind = "reasoning" THEN "reasoning_delta" ELSE "content_delta"

\* pc: "idle", "stream" (the first model call streams), "fallback" (the
\* second model call), "returned", "raised"; log: the events handed to the
\* writer; call: the model calls begun; k: the fragments of the call in
\* progress; text: the content collected from it holds more than white space.
NoStream ==
    [nd |-> "", pc |-> "idle", writer |-> "none", log |-> <<>>, call |-> 0, k |-> 0,
     text |-> FALSE]

StreamIdle == stream = NoStream

\* The node starts: the writer is resolved, the resets are emitted and the
\* first model call begins.
NodeBegins(nd, w) ==
    /\ stream.pc = "idle"
    /\ stream' = [NoStream EXCEPT !.nd = nd, !.pc = "stream", !.writer = w, !.call = 1,
                                 !.log = EmitAll(<<>>, w, Resets(nd), Scope(nd))]
    /\ UNCHANGED <<gqVars, graphVars, chatVars, call, chunker, ingestVars>>

\* The model call in progress yields a chunk.  The fallback call of
\* judge_node is llm.ainvoke, which yields no chunks.
ChunkArrives(kind) ==
    /\ stream.pc \in {"stream", "fallback"}
    /\ ~(stream.nd = "judge" /\ stream.pc = "fallback")
    /\ stream.k < MaxFragments
    /\ stream' =
         [stream EXCEPT
            !.k = @ + 1,
            !.text = @ \/ kind = "content",
            !.log = IF DeltaFor(stream.nd, kind) = "" THEN @
                    ELSE _emit_stream_event(@, stream.writer, DeltaFor(stream.nd, kind),
                                            Scope(stream.nd), stream.call, stream.k + 1)]
    /\ UNCHANGED <<gqVars, graphVars, chatVars, call, chunker, ingestVars>>

Fallback(s) == [s EXCEPT !.pc = "fallback", !.call = 2, !.k = 0, !.text = FALSE]

\* The first model call ends: its stream is exhausted (ok) or raises.
\* plan_node falls back when it raised (lines 392-419); judge_node when no
\* text was collected, raised or not (lines 810-815); respond_node when it
\* raised, its answer being lost then, or when the answer is empty
\* (lines 905-910).
StreamEnds(ok) ==
    /\ stream.pc = "stream"
    /\ stream' =
         CASE stream.nd = "plan"  -> IF ok THEN [stream EXCEPT !.pc = "returned"]
                                     ELSE Fallback(stream)
           [] stream.nd = "judge" -> IF stream.text THEN [stream EXCEPT !.pc = "returned"]
                                     ELSE Fallback(stream)
           [] OTHER               -> IF ok /\ stream.text
                                     THEN [stream EXCEPT !.pc = "returned"]
                                     ELSE Fallback(stream)
    /\ UNCHANGED <<gqVars, graphVars, chatVars, call, chunker, ingestVars>>

\* The fallback call ends.  That of judge_node returns the whole verdict,
\* which is emitted as one delta unless it is empty (lines 813-826).
FallbackEnds(ok, kind) ==
    /\ stream.pc = "fallback"
    /\ stream' =
         IF ~ok THEN [stream EXCEPT !.pc = "raised"]
         ELSE IF stream.nd = "judge" /\ kind = "content"
         THEN [stream EXCEPT !.pc = "returned", !.text = TRUE,
                             !.log = _emit_stream_event(@, stream.writer, "content_delta",
                                                        Scope(stream.nd), stream.call, 1)]
         ELSE [stream EXCEPT !.pc = "returned"]
    /\ UNCHANGED <<gqVars, graphVars, chatVars, call, chunker, ingestVars>>

StreamNext ==
    \/ \E nd \in StreamNodes, w \in {"none", "ok"} : NodeBegins(nd, w)
    \/ \E kind \in ChunkKinds : ChunkArrives(kind)
    \/ \E ok \in BOOLEAN : StreamEnds(ok)
    \/ \E ok \in BOOLEAN, kind \in {"content", "space"} : FallbackEnds(ok, kind)

-----------------------------------------------------------------------------
(* chunk_by_tokens (ingest/chunking.py) *)

\* Most tokens of a text, and the largest chunk size, overlap and settings
\* value in these runs.
MaxTokens == 4
MaxChunkSize == 3

\* The arguments chunk_size and overlap, and the two settings: an argument
\* that is not given is None.
ChunkArgs == [given : BOOLEAN, value : -1..MaxChunkSize]
ChunkSettings == 0..MaxChunkSize

\* A reading of an argument that takes 0 for an argument not given.
ArgumentOrSetting(arg, setting) ==
    IF arg.given /\ arg.value # 0 THEN arg.value ELSE setting

\* lines 48-49: the argument if it is not None, the setting otherwise.
Resolved(arg, setting) == IF arg.given THEN arg.value ELSE setting

\* start, idx: the locals of the loop; chunks: the token_start and token_end
\* of the chunks appended so far; given: the overlap argument.
NoChunker ==
    [pc |-> "idle", total |-> 0, chunk_size |-> 0, overlap |-> 0, start |-> 0,
     idx |-> 0, chunks |-> <<>>, given |-> [given |-> FALSE, value |-> 0]]

ChunkerIdle == chunker = NoChunker

\* chunk_by_tokens is called on a text of `total` tokens: lines 48-67.
ChunkBegins(total, size, over, settings_chunk_size, settings_chunk_overlap) ==
    /\ chunker.pc = "idle"
    /\ LET chunk_size == Resolved(size, settings_chunk_size)
           overlap    == Resolved(over, settings_chunk_overlap)
       IN  chunker' =
             [NoChunker EXCEPT
                !.total = total, !.chunk_size = chunk_size, !.overlap = overlap,
                !.given = over,
                !.pc = IF chunk_size <= 0 \/ ~(0 <= overlap /\ overlap < chunk_size)
                       THEN "raised"
                       ELSE IF total = 0 THEN "returned" ELSE "loop"]
    /\ UNCHANGED <<gqVars, graphVars, chatVars, call, stream, ingestVars>>

\* One pass of the while loop (lines 70-86), or its end (line 92).
ChunkStep ==
    /\ chunker.pc = "loop"
    /\ chunker' =
         IF chunker.start < chunker.total
         THEN LET end == Min({chunker.start + chunker.chunk_size, chunker.total})
              IN  [chunker EXCEPT
                     !.chunks = Append(@, [token_start |-> chunker.start,
                                           token_end |-> end]),
                     !.idx = @ + 1,
                     !.start = @ + chunker.chunk_size - chunker.overlap]
         ELSE [chunker EXCEPT !.pc = "returned"]
    /\ UNCHANGED <<gqVars, graphVars, chatVars, call, stream, ingestVars>>

ChunkNext ==
    \/ \E total \in 0..MaxTokens, size \in ChunkArgs, over \in ChunkArgs,
          s \in ChunkSettings, o \in ChunkSettings : ChunkBegins(total, size, over, s, o)
    \/ ChunkStep

-----------------------------------------------------------------------------
(* The agent graph: bounds and inputs *)

\* Largest iteration ceiling (settings.max_iterations) a turn is started with.
MaxIter == 2
\* Longest todo list the Planner's answer is parsed into.
MaxTodos == 2
\* The step cap max_steps of _run_react_loop in the runs of a turn
\* (execute_node leaves it at its default, 6).
MaxSteps == 1
\* Largest step cap of a _run_react_loop call that is observed on its own.
MaxStepCap == 2
\* Largest settings.agent_concurrency.
MaxConcurrency == 2

Turns == {1, 2}

\* Texts of the Judge, character by character ("NL": a line break).
SUFFICIENT == <<"S", "U", "F", "F", "I", "C", "I", "E", "N", "T">>
JudgeReplies ==
    { SUFFICIENT,
      <<"NL">> \o SUFFICIENT \o <<"!", "NL">>,
      <<"s", "u", "f", "f", "i", "c", "i", "e", "n", "t">>,
      <<"I", "N">> \o SUFFICIENT,
      <<"NL">>,
      <<>> }

\* str.upper(), on the letters that occur in JudgeReplies.
UpperChar(c) ==
    CASE c = "s" -> "S" [] c = "u" -> "U" [] c = "f" -> "F" [] c = "i" -> "I"
      [] c = "c" -> "C" [] c = "e" -> "E" [] c = "n" -> "N" [] c = "t" -> "T"
      [] OTHER -> c
Upper(s) == [i \in 1..Len(s) |-> UpperChar(s[i])]

\* str.startswith
StartsWith(s, p) == Len(s) >= Len(p) /\ SubSeq(s, 1, Len(p)) = p

\* A Planner answer, as far as _parse_todos reads it: the "id" of each item of
\* its JSON array ("none": the item has no id); <<>> is an answer with no
\* array in it, or with an empty one.
PlannerAnswers == UNION {[1..n -> {"none", "1"}] : n \in 0..MaxTodos}

\* str(i)
Str(i) == CASE i = 1 -> "1" [] i = 2 -> "2" [] i = 3 -> "3" [] OTHER -> "4"

_parse_todos(items) ==
    IF items = <<>> THEN << [id |-> "1", status |-> "pending"] >>
    ELSE [i \in 1..Len(items) |->
            [id |-> IF items[i] = "none" THEN Str(i) ELSE items[i],
             status |-> "pending"]]

\* A Planner answer in full, as _parse_todos reads it.  raw: the text;
\* array: whether json.loads gave a list for the text between the first [
\* and the last ] ("none": no brackets, "invalid": JSONDecodeError);
\* items: that list.  An item is a dict or not; "id", "task", "content" are
\* the str() of its values for these keys ("none": no such key; "null": the
\* value None); text is str(item).
PlanItems ==
    [dict : {TRUE}, id : {"none", "1", "2", "7"}, task : {"none", "null", "t"},
     content : {"none", "c"}, text : {"item"}]
        \cup [dict : {FALSE}, id : {"none"}, task : {"none"}, content : {"none"},
              text : {"item"}]
PlannerTexts ==
    [raw : {"text1", "text2"}, array : {"none", "invalid"}, items : {<<>>}]
        \cup [raw : {"text1"}, array : {"parsed"},
              items : UNION {[1..n -> PlanItems] : n \in 0..MaxTodos}]

\* _parse_todos, lines 462-471: the todo made of item i.
ValidatedItem(item, i) ==
    IF item.dict
    THEN [id |-> IF item.id = "none" THEN Str(i) ELSE item.id,
          content |-> IF item.task # "none" THEN item.task
                      ELSE IF item.content # "none" THEN item.content
                      ELSE item.text,
          status |-> "pending"]
    ELSE [id |-> Str(i), content |-> item.text, status |-> "pending"]

\* A parse that returns the list as it is when it is empty.
ValidatedWithoutFallback(answer) ==
    [i \in 1..Len(answer.items) |-> ValidatedItem(answer.items[i], i)]

\* _parse_todos, lines 445-472, with the content of the todos.
Validated(answer) ==
    IF answer.array # "parsed" \/ answer.items = <<>>
    THEN << [id |-> "1", content |-> answer.raw, status |-> "pending"] >>
    ELSE [i \in 1..Len(answer.items) |-> ValidatedItem(answer.items[i], i)]


-----------------------------------------------------------------------------
(* Stream events and the stream writer *)

\* A run has no writer ("none"), one that delivers every event ("ok"), or one
\* whose calls may raise ("flaky").
WriterModes == {"none", "ok", "flaky"}

\* What the successive writer calls of one uninterrupted stretch of code do:
\* TRUE delivers the event, FALSE raises.  No stretch makes more than 4 calls.
WriterCalls == 1..4
WriterOutcomes(m) ==
    IF m = "flaky" THEN [WriterCalls -> BOOLEAN] ELSE {[k \in WriterCalls |-> TRUE]}

\* The outcomes for a stretch that makes at most n writer calls.
WriterOutcomesIn(m, n) ==
    {w \in WriterOutcomes(m) : \A k \in WriterCalls : k > n => w[k]}

StatusEvent(st) == [type |-> "subtask_status", status |-> st]
ResultEvent(r)  == [type |-> "subtask_result", result |-> r]
ToolCallEvent(id, st) == [type |-> "subtask_tool_call", id |-> id, status |-> st]

\* The observation of a step, part by part: str(result) of the tool, the
\* text for a tool that is not in tool_map, and the text for a tool that
\* raised, which holds type(exc).__name__ and str(exc).
ToolOutput       == <<"result">>
UnknownToolError == <<"Error: unknown tool", "tool", "Available tools:", "tools">>
ToolRaisedError  == <<"Error: tool", "tool", "raised", "exception class", ":",
                      "exception message">>

\* observation[:2000]
ObservationLimit == 2000
Truncated(observation) ==
    SubSeq(observation, 1, IF Len(observation) < ObservationLimit
                           THEN Len(observation) ELSE ObservationLimit)

\* The terminal event of a tool call, lines 613-624.
ToolCallResult(id, st, observation) ==
    [type |-> "subtask_tool_call", id |-> id, status |-> st,
     result |-> Truncated(observation)]

\* "if writer is not None: writer(event)": the call is made unguarded.  s is
\* the task's record; s.exc says that an exception is propagating, s.n counts
\* the writer calls of this stretch, s.evts keeps the tool-call events that
\* were delivered (their id and status), s.shown the result that the last of
\* them carried.
WriterCall(s, ev, m, w) ==
    IF s.exc \/ m = "none" THEN s
    ELSE IF w[s.n + 1]
         THEN [s EXCEPT !.evts = IF ev.type = "subtask_tool_call"
                                 THEN Append(@, ToolCallEvent(ev.id, ev.status))
                                 ELSE @,
                        !.shown = IF ev.type = "subtask_tool_call"
                                     /\ "result" \in DOMAIN ev
                                  THEN ev.result ELSE @,
                        !.n = @ + 1]
         ELSE [s EXCEPT !.exc = TRUE, !.n = @ + 1,
                        !.cause = IF @ = "" THEN "writer" ELSE @]

-----------------------------------------------------------------------------
(* One _run_one task of execute_node, with the _run_react_loop it runs *)

\* pc: "queued" (waiting for the semaphore), "llm", "repair", "forced" (an
\* await of llm.ainvoke), "tool" (the await of the tool), "returned",
\* "raised" (the exception left _run_one).
NewTask ==
    [pc |-> "queued", step |-> 0, did_repair |-> FALSE, status |-> "pending",
     ret |-> "", evts |-> <<>>, nid |-> 0, cause |-> "", loopRaised |-> FALSE,
     exc |-> FALSE, n |-> 0, shown |-> <<>>]

Running(s) == s.pc \in {"llm", "repair", "tool", "forced"}
Ended(s)   == s.pc \in {"returned", "raised"}

Suspend(s, pc) == [s EXCEPT !.pc = pc, !.n = 0]
\* The coroutine is over: its locals (step, did_repair, the observation)
\* are gone.
Over(s)        == [s EXCEPT !.step = 0, !.did_repair = FALSE, !.nid = 0,
                            !.exc = FALSE, !.n = 0, !.shown = <<>>]
Returned(s, r) == [Over(s) EXCEPT !.pc = "returned", !.ret = r]
Raised(s)      == [Over(s) EXCEPT !.pc = "raised"]

\* _run_one, lines 723-741: the except clause.
Handler(s, m, w) ==
    LET s1 == [s EXCEPT !.exc = FALSE, !.status = "completed"]
        s2 == WriterCall(s1, StatusEvent("completed"), m, w)
        s3 == WriterCall(s2, ResultEvent("ERROR: sub-task failed"), m, w)
    IN  IF s3.exc THEN Raised(s3) ELSE Returned(s3, "ERROR: sub-task failed")

\* _run_one, lines 703-722: the loop returned its answer.
LoopReturned(s, m, w) ==
    LET s1 == WriterCall(s, ResultEvent("answer"), m, w)
        s2 == IF s1.exc THEN s1 ELSE [s1 EXCEPT !.status = "completed"]
        s3 == WriterCall(s2, StatusEvent("completed"), m, w)
    IN  IF s3.exc THEN Handler(s3, m, w) ELSE Returned(s3, "answer")

\* An exception leaves _run_react_loop.
LoopRaised(s, m, w) == Handler([s EXCEPT !.loopRaised = TRUE], m, w)

\* _run_one, lines 678-702: the semaphore is held; up to the first model call.
RunOneBegin(s, m, w) ==
    LET s1 == [s EXCEPT !.status = "in_progress"]
        s2 == WriterCall(s1, StatusEvent("in_progress"), m, w)
    IN  IF s2.exc THEN Raised(s2)
        ELSE Suspend([s2 EXCEPT !.step = 1], "llm")

\* _run_react_loop, lines 520 and 644-654: the next step, or the forced answer.
NextStep(s) ==
    IF s.step < max_steps THEN Suspend([s EXCEPT !.step = @ + 1], "llm")
    ELSE Suspend(s, "forced")

\* _run_react_loop, lines 572-624: an action was parsed; known tells whether
\* its tool is in tool_map.
OnAction(s, known, m, w) ==
    LET s0 == [s EXCEPT !.nid = @ + 1]
        s1 == WriterCall(s0, ToolCallEvent(s0.nid, "pending"), m, w)
    IN  IF s1.exc THEN LoopRaised(s1, m, w)
        ELSE IF known THEN Suspend(s1, "tool")
        ELSE LET s2 == WriterCall(s1, ToolCallResult(s1.nid, "error", UnknownToolError),
                                  m, w)
             IN  IF s2.exc THEN LoopRaised(s2, m, w) ELSE NextStep(s2)

\* What llm.ainvoke may do in the loop: answer with a Final Answer, with an
\* Action naming a known tool, with an Action naming an unknown tool, with a
\* text that parses as neither; or raise.
LlmAnswers == {"final", "action", "unknown_action", "unparseable", "raise"}

\* A loop that asks for a format repair whenever an answer parses as neither.
OnAnswerAlwaysRepairing(s, r, m, w) ==
    CASE r = "raise"          -> LoopRaised([s EXCEPT !.exc = TRUE, !.cause = "llm"], m, w)
      [] r = "final"          -> LoopReturned(s, m, w)
      [] r = "action"         -> OnAction(s, TRUE, m, w)
      [] r = "unknown_action" -> OnAction(s, FALSE, m, w)
      [] OTHER                -> Suspend([s EXCEPT !.did_repair = TRUE], "repair")

\* _run_react_loop, lines 521-570: an answer of the model in a step (the
\* step's own call, or its format-repair call).
OnAnswer(s, r, m, w) ==
    CASE r = "raise"          -> LoopRaised([s EXCEPT !.exc = TRUE, !.cause = "llm"], m, w)
      [] r = "final"          -> LoopReturned(s, m, w)
      [] r = "action"         -> OnAction(s, TRUE, m, w)
      [] r = "unknown_action" -> OnAction(s, FALSE, m, w)
      [] OTHER                -> IF s.did_repair THEN LoopReturned(s, m, w)
                                 ELSE Suspend([s EXCEPT !.did_repair = TRUE], "repair")

\* The most writer calls of the stretch that handles answer r of the model:
\* the two of the except clause of _run_one, after at most two of the loop
\* or of _run_one; a first unparseable answer leads to the format-repair
\* call with no event.  The stretch after RunOneAcquire makes one call, the
\* one after a tool at most three.
WriterCallsAfter(s, r) ==
    CASE r = "raise" -> 2
      [] r = "action" -> 3
      [] r = "unparseable" /\ s.pc = "llm" /\ ~s.did_repair -> 0
      [] OTHER -> 4

\* _run_react_loop, lines 606-628: the tool returned (ok) or raised.
OnToolDone(s, ok, m, w) ==
    LET s1 == WriterCall(s, IF ok THEN ToolCallResult(s.nid, "completed", ToolOutput)
                               ELSE ToolCallResult(s.nid, "error", ToolRaisedError),
                         m, w)
    IN  IF s1.exc THEN LoopRaised(s1, m, w) ELSE NextStep(s1)

\* What llm.ainvoke may do with the forcing instruction: its answer is read
\* for a Final Answer and taken raw if it has none.
ForcedAnswers == {"final", "unparseable", "raise"}

\* _run_react_loop, lines 654-657: the answer to the forcing instruction.
OnForcedAnswer(s, r, m, w) ==
    IF r = "raise" THEN LoopRaised([s EXCEPT !.exc = TRUE, !.cause = "llm"], m, w)
    ELSE LoopReturned(s, m, w)

-----------------------------------------------------------------------------
(* The nodes of the agent graph (build_agent_graph) *)

configVars  == <<agent_concurrency, max_iterations, writer, max_steps>>
taskVars    == <<gathering, sub, sem, doneOrder>>
judgeVars   == <<verdict, judges, sawSufficient, sawSufficientAnyCase>>

\* An exception leaves node nd: the run of the graph ends with it.
NodeRaises(t, nd) ==
    /\ node' = [node EXCEPT ![t] = "failed"]
    /\ failedIn' = [failedIn EXCEPT ![t] = nd]

\* plan_node.  o = "raise": the streaming call and the fallback call both
\* raised; otherwise one of them gave the answer whose items are `items`.
plan_node(t, o, items) ==
    /\ node[t] = "plan"
    /\ IF o = "raise"
       THEN /\ NodeRaises(t, "plan")
            /\ UNCHANGED <<todos, iteration, plans>>
       ELSE /\ todos' = [todos EXCEPT ![t] = _parse_todos(items)]
            /\ iteration' = [iteration EXCEPT ![t] = @ + 1]
            /\ plans' = [plans EXCEPT ![t] = @ + 1]
            /\ node' = [node EXCEPT ![t] = "execute"]
            /\ UNCHANGED failedIn
    /\ UNCHANGED <<configVars, taskVars, judgeVars, intermediate_results,
                   final_answer>>
    /\ UNCHANGED <<gqVars, ingestVars>>

\* plan_node with an answer of the model in full: the plan step of the
\* first turn returns the todos with their contents.
PlanReturns(answer) ==
    /\ node[1] = "plan"
    /\ todos' = [todos EXCEPT ![1] = Validated(answer)]
    /\ iteration' = [iteration EXCEPT ![1] = @ + 1]
    /\ plans' = [plans EXCEPT ![1] = @ + 1]
    /\ node' = [node EXCEPT ![1] = "execute"]
    /\ UNCHANGED failedIn
    /\ UNCHANGED <<configVars, taskVars, judgeVars, intermediate_results,
                   final_answer>>
    /\ UNCHANGED <<gqVars, ingestVars>>
    /\ UNCHANGED <<run, nodeRuns, chatVars, storeVars>>

\* execute_node, lines 665-675 and 743: the semaphore is made and the
\* _run_one tasks are handed to asyncio.gather.
execute_node(t) ==
    /\ node[t] = "execute"
    /\ ~gathering[t]
    /\ IF todos[t] = <<>>
       THEN /\ intermediate_results' =
                 [intermediate_results EXCEPT ![t] = << "No sub-tasks to execute." >>]
            /\ node' = [node EXCEPT ![t] = "aggregate"]
            /\ UNCHANGED taskVars
       ELSE /\ gathering' = [gathering EXCEPT ![t] = TRUE]
            /\ sem' = [sem EXCEPT ![t] = agent_concurrency]
            /\ sub' = [sub EXCEPT ![t] = [i \in 1..Len(todos[t]) |-> NewTask]]
            /\ doneOrder' = [doneOrder EXCEPT ![t] = <<>>]
            /\ UNCHANGED <<node, intermediate_results>>
    /\ UNCHANGED <<configVars, judgeVars, todos, iteration, plans, final_answer,
                   failedIn>>
    /\ UNCHANGED <<gqVars, ingestVars>>

\* Task i of turn t goes from record sub[t][i] to s.  A task that ends leaves
\* "async with semaphore" (it held a permit iff held) and is done.
TaskStep(t, i, s, held) ==
    /\ sub' = [sub EXCEPT ![t][i] = s]
    /\ IF Ended(s)
       THEN /\ doneOrder' = [doneOrder EXCEPT ![t] = Append(@, i)]
            /\ sem' = IF held THEN [sem EXCEPT ![t] = @ + 1] ELSE sem
       ELSE /\ sem' = IF held THEN sem ELSE [sem EXCEPT ![t] = @ - 1]
            /\ UNCHANGED doneOrder
    /\ UNCHANGED <<configVars, judgeVars, gathering, node, iteration, todos,
                   intermediate_results, final_answer, plans, failedIn>>
    /\ UNCHANGED <<gqVars, ingestVars>>

\* asyncio.Semaphore: a permit is free, and the tasks are served in the order
\* in which they began to wait, which is the order gather was given them in.
CanAcquire(t, i) ==
    /\ sem[t] > 0
    /\ \A j \in 1..(i - 1) : sub[t][j].pc # "queued"

\* _run_one enters "async with semaphore" and runs to its first await.
RunOneAcquire(t, i) ==
    /\ i \in DOMAIN sub[t]
    /\ sub[t][i].pc = "queued"
    /\ CanAcquire(t, i)
    /\ \E w \in WriterOutcomesIn(writer[t], 1) :
         TaskStep(t, i, RunOneBegin(sub[t][i], writer[t], w), FALSE)

\* The model answers the call of a step.
LlmAnswersStep(t, i, r) ==
    /\ i \in DOMAIN sub[t]
    /\ sub[t][i].pc = "llm"
    /\ \E w \in WriterOutcomesIn(writer[t], WriterCallsAfter(sub[t][i], r)) :
         TaskStep(t, i, OnAnswer(sub[t][i], r, writer[t], w), TRUE)

\* The model answers the format-repair call.
LlmAnswersRepair(t, i, r) ==
    /\ i \in DOMAIN sub[t]
    /\ sub[t][i].pc = "repair"
    /\ \E w \in WriterOutcomesIn(writer[t], WriterCallsAfter(sub[t][i], r)) :
         TaskStep(t, i, OnAnswer(sub[t][i], r, writer[t], w), TRUE)

\* The tool returns or raises.
ToolDone(t, i, ok) ==
    /\ i \in DOMAIN sub[t]
    /\ sub[t][i].pc = "tool"
    /\ \E w \in WriterOutcomesIn(writer[t], 3) :
         TaskStep(t, i, OnToolDone(sub[t][i], ok, writer[t], w), TRUE)

\* The model answers the forcing instruction.
LlmAnswersForced(t, i, r) ==
    /\ i \in DOMAIN sub[t]
    /\ sub[t][i].pc = "forced"
    /\ \E w \in WriterOutcomesIn(writer[t], WriterCallsAfter(sub[t][i], r)) :
         TaskStep(t, i, OnForcedAnswer(sub[t][i], r, writer[t], w), TRUE)

\* The result _run_one(i, todos[i]) returned: "[Sub-task id] desc -> answer".
\* `of` is the todo the text was made for.
ResultOf(t, i) == [of |-> i, id |-> todos[t][i].id, text |-> sub[t][i].ret]

\* A gather that would return the results in the order they became available.
GatherInCompletionOrder(t) ==
    [k \in 1..Len(doneOrder[t]) |-> ResultOf(t, doneOrder[t][k])]

\* The list asyncio.gather returns: the results in the order of its arguments.
Gather(t) == [i \in 1..Len(sub[t]) |-> ResultOf(t, i)]

\* execute_node, lines 743-748: every task returned.
execute_returns(t) ==
    /\ node[t] = "execute"
    /\ gathering[t]
    /\ \A i \in DOMAIN sub[t] : sub[t][i].pc = "returned"
    /\ intermediate_results' = [intermediate_results EXCEPT ![t] = Gather(t)]
    /\ todos' = [todos EXCEPT ![t] =
                   [i \in 1..Len(sub[t]) |->
                      [id |-> todos[t][i].id, status |-> sub[t][i].status]]]
    /\ gathering' = [gathering EXCEPT ![t] = FALSE]
    /\ sub' = [sub EXCEPT ![t] = <<>>]
    /\ sem' = [sem EXCEPT ![t] = 0]
    /\ node' = [node EXCEPT ![t] = "aggregate"]
    /\ UNCHANGED <<configVars, judgeVars, doneOrder, iteration, plans,
                   final_answer, failedIn>>
    /\ UNCHANGED <<gqVars, ingestVars>>

\* execute_node, line 743: a task raised, and gather raises its exception in
\* execute_node.  The other tasks are not cancelled.
execute_raises(t) ==
    /\ node[t] = "execute"
    /\ gathering[t]
    /\ \E i \in DOMAIN sub[t] : sub[t][i].pc = "raised"
    /\ NodeRaises(t, "execute")
    /\ gathering' = [gathering EXCEPT ![t] = FALSE]
    /\ UNCHANGED <<configVars, judgeVars, sub, sem, doneOrder, iteration, todos,
                   intermediate_results, plans, final_answer>>
    /\ UNCHANGED <<gqVars, ingestVars>>

aggregate_node(t) ==
    /\ node[t] = "aggregate"
    /\ node' = [node EXCEPT ![t] = "judge"]
    /\ UNCHANGED <<configVars, judgeVars, taskVars, iteration, todos,
                   intermediate_results, plans, final_answer, failedIn>>
    /\ UNCHANGED <<gqVars, ingestVars>>

\* Variants of the test of line 834: the ceiling reached one iteration early,
\* one iteration late, and the verdict compared in the case it was written in.
ReadyOneEarly(v, it, max) == StartsWith(Upper(v), SUFFICIENT) \/ it + 1 >= max
ReadyOneLate(v, it, max) == StartsWith(Upper(v), SUFFICIENT) \/ it > max
ReadyCaseSensitive(v, it, max) == StartsWith(v, SUFFICIENT) \/ it >= max

\* judge_node, line 834
Ready(v, it, max) == StartsWith(Upper(v), SUFFICIENT) \/ it >= max

\* _should_continue
_should_continue(fa) == IF fa # "" THEN "respond" ELSE "plan"

\* judge_node, with the conditional edge that follows it.  o = "raise": the
\* stream gave no text and the fallback call raised; otherwise the verdict is
\* the stripped reply.
judge_node(t, o, reply) ==
    /\ node[t] = "judge"
    /\ IF o = "raise"
       THEN /\ NodeRaises(t, "judge")
            /\ UNCHANGED <<judgeVars, final_answer>>
       ELSE LET v  == Strip(reply)
                fa == IF Ready(v, iteration[t], max_iterations[t])
                      THEN "__READY__" ELSE ""
            IN  /\ final_answer' = [final_answer EXCEPT ![t] = fa]
                /\ verdict' = [verdict EXCEPT ![t] = v]
                /\ judges' = [judges EXCEPT ![t] = @ + 1]
                /\ sawSufficient' =
                     [sawSufficient EXCEPT ![t] = @ \/ StartsWith(v, SUFFICIENT)]
                /\ sawSufficientAnyCase' =
                     [sawSufficientAnyCase EXCEPT
                        ![t] = @ \/ StartsWith(Upper(v), SUFFICIENT)]
                /\ node' = [node EXCEPT ![t] = _should_continue(fa)]
                /\ UNCHANGED failedIn
    /\ UNCHANGED <<configVars, taskVars, iteration, todos, intermediate_results,
                   plans>>
    /\ UNCHANGED <<gqVars, ingestVars>>

\* respond_node, with the edge to END.  o = "raise": the fallback call raised;
\* "empty": neither call gave any text.
respond_node(t, o) ==
    /\ node[t] = "respond"
    /\ IF o = "raise"
       THEN /\ NodeRaises(t, "respond")
            /\ UNCHANGED final_answer
       ELSE /\ final_answer' =
                 [final_answer EXCEPT ![t] = IF o = "empty" THEN "" ELSE "answer"]
            /\ node' = [node EXCEPT ![t] = "END"]
            /\ UNCHANGED failedIn
    /\ UNCHANGED <<configVars, judgeVars, taskVars, iteration, todos,
                   intermediate_results, plans>>
    /\ UNCHANGED <<gqVars, ingestVars>>

\* A step of turn t, the Planner answering from `answers`.
TurnNext(t, answers) ==
        \/ \E o \in {"ok", "raise"}, items \in answers : plan_node(t, o, items)
        \/ execute_node(t)
        \/ \E i \in 1..MaxTodos : RunOneAcquire(t, i)
        \/ \E i \in 1..MaxTodos, r \in LlmAnswers : LlmAnswersStep(t, i, r)
        \/ \E i \in 1..MaxTodos, r \in LlmAnswers : LlmAnswersRepair(t, i, r)
        \/ \E i \in 1..MaxTodos, ok \in BOOLEAN : ToolDone(t, i, ok)
        \/ \E i \in 1..MaxTodos, r \in ForcedAnswers : LlmAnswersForced(t, i, r)
        \/ execute_returns(t)
        \/ execute_raises(t)
        \/ aggregate_node(t)
        \/ \E o \in {"ok", "raise"}, reply \in JudgeReplies : judge_node(t, o, reply)
        \/ \E o \in {"answer", "empty", "raise"} : respond_node(t, o)

AgentNext ==
    /\ \E t \in Turns : TurnNext(t, PlannerAnswers)
    /\ UNCHANGED <<run, nodeRuns, chatVars, storeVars>>

-----------------------------------------------------------------------------
(* One _run_react_loop call, observed *)

\* model, repair, forced, tool: the llm.ainvoke calls made so far (all of
\* them, the format-repair ones, the ones with the forcing instruction) and
\* the tool invocations; at, last: the await at which the last answer of the
\* model arrived, and that answer; allReturned: no model or tool call raised;
\* out: what the loop returned ("": nothing so far); toolFailure: the tool
\* failure that the last step met ("": none).
NoCalls ==
    [model |-> 0, repair |-> 0, forced |-> 0, tool |-> 0, at |-> "", last |-> "",
     allReturned |-> TRUE, out |-> "", toolFailure |-> ""]

\* The step of task 1 of turn 1 is recorded: it handled answer r (""  for a
\* step that handles none), `returned` tells that the call it waited for
\* returned.  The await the task is suspended at next is a call being made.
\* The loop returned iff the task ended with no exception having left the
\* loop: the parsed Final Answer (lines 527-528, 559-560, 656-657), or the
\* raw text (lines 533-539, 562-567, 657).
Counted(r, returned) ==
    LET s  == sub[1][1]
        s1 == sub'[1][1]
    IN  run' = [run EXCEPT
                  !.model  = IF s1.pc \in {"llm", "repair", "forced"} THEN @ + 1 ELSE @,
                  !.repair = IF s1.pc = "repair" THEN @ + 1 ELSE @,
                  !.forced = IF s1.pc = "forced" THEN @ + 1 ELSE @,
                  !.tool   = IF s1.pc = "tool" THEN @ + 1 ELSE @,
                  !.at     = IF r = "" THEN @ ELSE s.pc,
                  !.last   = IF r = "" THEN @ ELSE r,
                  !.allReturned = @ /\ returned,
                  !.out    = IF r # "" /\ Ended(s1) /\ ~s1.loopRaised
                             THEN IF r = "final" THEN "final answer" ELSE "raw text"
                             ELSE @,
                  !.toolFailure =
                      IF r = "unknown_action" THEN "unknown tool"
                      ELSE IF s.pc = "tool" /\ ~returned THEN "tool raised"
                      ELSE ""]

OneRunNext ==
    /\ \/ \E o \in {"ok", "raise"} : plan_node(1, o, <<"1">>) /\ UNCHANGED run
       \/ execute_node(1) /\ UNCHANGED run
       \/ RunOneAcquire(1, 1) /\ Counted("", TRUE)
       \/ \E r \in LlmAnswers : LlmAnswersStep(1, 1, r) /\ Counted(r, r # "raise")
       \/ \E r \in LlmAnswers : LlmAnswersRepair(1, 1, r) /\ Counted(r, r # "raise")
       \/ \E ok \in BOOLEAN : ToolDone(1, 1, ok) /\ Counted("", ok)
       \/ \E r \in ForcedAnswers : LlmAnswersForced(1, 1, r) /\ Counted(r, r # "raise")
       \/ execute_returns(1) /\ UNCHANGED run
       \/ execute_raises(1) /\ UNCHANGED run
    /\ UNCHANGED <<nodeRuns, chatVars, storeVars>>

-----------------------------------------------------------------------------
(* The cycles of one turn, observed *)

NoRuns == [execute |-> 0, aggregate |-> 0]

\* The edges of build_agent_graph, lines 1009-1012: execute_node returned when
\* the turn goes from execute to aggregate, aggregate_node when it goes from
\* aggregate to judge.
CyclesCounted ==
    nodeRuns' = [nodeRuns EXCEPT
                   !.execute   = IF node[1] = "execute" /\ node'[1] = "aggregate"
                                 THEN @ + 1 ELSE @,
                   !.aggregate = IF node[1] = "aggregate" /\ node'[1] = "judge"
                                 THEN @ + 1 ELSE @]

\* service._safe_int: int(value), 0 for a value int() does not take.
_safe_int(value) == IF value \in Int THEN value ELSE 0

\* ChatService.ask_stream, lines 229-248: the "state" event made from the
\* "values" chunk of the state turn t is in, as far as iteration and
\* final_answer go.  A run that streams is one that has a stream writer.
StateEvent(t) ==
    [event |-> "state", iteration |-> _safe_int(iteration[t]),
     final_answer |-> final_answer[t]]

\* Turn 1, its Planner answering with at most one item.
CyclesNext ==
    /\ TurnNext(1, {a \in PlannerAnswers : Len(a) <= 1})
    /\ CyclesCounted
    /\ UNCHANGED <<run, chatVars, storeVars>>

-----------------------------------------------------------------------------
(* Ingestion: names, entities and merge_entities (kg_rag/ingest/extract.py) *)

\* Most entities and most relations in the answers for the chunks of one
\* call, the chunks of a call, most groups in the answer of the
\* deduplication model.
MaxEntities == 3
MaxRelations == 1
MaxChunks == 2
MaxGroups == 2

\* Names, character by character: two that differ in case only and two
\* others, one of them longer.
EntityNames == { <<"a", "b">>, <<"A", "B">>, <<"c", "d", "e">>, <<"f", "g">> }
RelationTypes == {"USES"}

\* str.lower(), on the letters that occur in the names.
LowerChar(c) == CASE c = "A" -> "a" [] c = "B" -> "b" [] OTHER -> c
Lower(s) == [i \in 1..Len(s) |-> LowerChar(s[i])] \o <<>>

\* str.strip(), the white space being the blank.
Trim(s) ==
    LET keep == {i \in 1..Len(s) : s[i] # " "}
    IN  IF keep = {} THEN <<>> ELSE SubSeq(s, Min(keep), Max(keep))

\* models.make_entity_id: the SHA-256 digest of name.lower().strip(), a
\* one-to-one function of that text.
make_entity_id(name) == <<"sha256", Trim(Lower(name))>>

\* An Entity, as far as its id, name and aliases go, and a Relation.
Entity(name, aliases) == [id |-> make_entity_id(name), name |-> name, aliases |-> aliases]
Relation(src, tgt, type) == [source |-> src, target |-> tgt, type |-> type]

\* The empty dict, and dict.update.
EmptyMap == [k \in {} |-> k]
Update(m1, m2) ==
    [k \in DOMAIN m1 \cup DOMAIN m2 |-> IF k \in DOMAIN m2 THEN m2[k] ELSE m1[k]]

\* The elements of a set of numbers in increasing order.
RECURSIVE Ascending(_)
Ascending(S) == IF S = {} THEN <<>> ELSE <<Min(S)>> \o Ascending(S \ {Min(S)})

\* aliases, with each element of more appended that is not in it yet and is
\* not in `excluded`.
RECURSIVE ExtendAliases(_, _, _)
ExtendAliases(aliases, more, excluded) ==
    IF more = <<>> THEN aliases
    ELSE LET a == Head(more)
         IN  ExtendAliases(IF a \notin Range(aliases) /\ a \notin excluded
                           THEN Append(aliases, a) ELSE aliases,
                           Tail(more), excluded)

\* merge_entities, lines 141-164: ent is merged into the entity `existing`
\* that has its key.
MergeInto(existing, ent) ==
    LET variant == IF ent.name # existing.name THEN <<ent.name>> ELSE <<>>
        als     == ExtendAliases(existing.aliases, variant, {})
    IN  [existing EXCEPT !.aliases = ExtendAliases(als, ent.aliases, {existing.name})]

\* merge_entities, lines 137-167: the entities ents added one by one to the
\* dict all_entities, whose values in insertion order are acc.
RECURSIVE MergeAll(_, _)
MergeAll(acc, ents) ==
    IF ents = <<>> THEN acc
    ELSE LET ent == Head(ents)
             hit == {k \in 1..Len(acc) : Lower(acc[k].name) = Lower(ent.name)}
         IN  MergeAll(IF hit = {} THEN Append(acc, ent)
                      ELSE [acc EXCEPT ![Min(hit)] = MergeInto(@, ent)],
                      Tail(ents))

RECURSIVE Flatten(_)
Flatten(lists) == IF lists = <<>> THEN <<>> ELSE Head(lists) \o Flatten(Tail(lists))

merge_entities(entity_lists) == MergeAll(<<>>, Flatten(entity_lists))

-----------------------------------------------------------------------------
(* Ingestion: layer 1, dedup_by_alias_cross_ref *)

MIN_TOKEN_LEN == 2

NameToken(ent) == Lower(Trim(ent.name))
AliasTokens(ent) ==
    {tok \in {Lower(Trim(ent.aliases[k])) : k \in 1..Len(ent.aliases)} :
        Len(tok) >= MIN_TOKEN_LEN}

\* name_to_idx holds the name token of entity i under index i: the token is
\* long enough and no later entity has the same one.
NameIndexed(ents, i) ==
    /\ Len(NameToken(ents[i])) >= MIN_TOKEN_LEN
    /\ \A k \in (i + 1)..Len(ents) : NameToken(ents[k]) # NameToken(ents[i])

\* A union that is also made for two entities with an alias in common.
UnionedSharingAlias(ents, i, j) ==
    /\ i # j
    /\ \/ NameIndexed(ents, i) /\ NameToken(ents[i]) \in AliasTokens(ents[j])
       \/ AliasTokens(ents[i]) \cap AliasTokens(ents[j]) # {}

\* union(i, j) is called: the name of entity i is an alias of entity j.
Unioned(ents, i, j) ==
    /\ i # j
    /\ NameIndexed(ents, i)
    /\ NameToken(ents[i]) \in AliasTokens(ents[j])

\* The indices that find() gives the same root as those of S.
RECURSIVE SameRoot(_, _)
SameRoot(ents, S) ==
    LET more == {j \in 1..Len(ents) :
                    \E i \in S : Unioned(ents, i, j) \/ Unioned(ents, j, i)}
    IN  IF more \subseteq S THEN S ELSE SameRoot(ents, S \cup more)

\* Groups as they would be if find() did not follow parent links: an index
\* goes with the smallest index it was united with directly.
GroupsWithoutFind(ents) ==
    LET root(i) == Min({i} \cup {j \in 1..Len(ents) :
                                    Unioned(ents, i, j) \/ Unioned(ents, j, i)})
        order   == Ascending({root(i) : i \in 1..Len(ents)})
    IN  [g \in 1..Len(order) |->
            Ascending({i \in 1..Len(ents) : root(i) = order[g]})] \o <<>>

\* The dict groups: its values in insertion order, each a list of indices.
Groups(ents) ==
    LET first == {i \in 1..Len(ents) : i = Min(SameRoot(ents, {i}))}
        order == Ascending(first)
    IN  [g \in 1..Len(order) |-> Ascending(SameRoot(ents, {order[g]}))] \o <<>>

\* A choice of the canonical name that takes the name of the first member.
FirstName(names) == names[1]

\* max(names, key=len): the first of the longest names.
Longest(names) ==
    names[Min({k \in 1..Len(names) : \A j \in 1..Len(names) : Len(names[k]) >= Len(names[j])})]

\* A merge of one group that would leave the id as merge_entities gives it.
MergeGroupKeepingId(group) ==
    IF Len(group) = 1 THEN [ents |-> group, map |-> EmptyMap]
    ELSE LET names          == [k \in 1..Len(group) |-> group[k].name] \o <<>>
             canonical_name == Longest(names)
             original_names == SelectSeq(names, LAMBDA n : n # canonical_name)
             normalized     == [k \in 1..Len(group) |->
                                   [group[k] EXCEPT !.name = canonical_name]] \o <<>>
             result         == merge_entities(<<normalized>>)
         IN  [ents |-> << [result[1] EXCEPT
                             !.aliases = ExtendAliases(@, original_names, {})] >>,
              map |-> [n \in Range(original_names) |-> canonical_name]]

\* dedup_by_alias_cross_ref, lines 228-262: what one group adds to `merged`
\* and to name_map.
MergeGroup(group) ==
    IF Len(group) = 1 THEN [ents |-> group, map |-> EmptyMap]
    ELSE LET names          == [k \in 1..Len(group) |-> group[k].name] \o <<>>
             canonical_name == Longest(names)
             original_names == SelectSeq(names, LAMBDA n : n # canonical_name)
             normalized     == [k \in 1..Len(group) |->
                                   [group[k] EXCEPT !.name = canonical_name]] \o <<>>
             result         == merge_entities(<<normalized>>)
         IN  IF Len(result) # 1 THEN [ents |-> result, map |-> EmptyMap]
             ELSE [ents |-> << [result[1] EXCEPT
                                  !.aliases = ExtendAliases(@, original_names, {}),
                                  !.id = make_entity_id(canonical_name)] >>,
                   map |-> [n \in Range(original_names) |-> canonical_name]]

\* The groups gs merged one after the other.
RECURSIVE MergeGroups(_, _)
MergeGroups(ents, gs) ==
    IF gs = <<>> THEN [ents |-> <<>>, map |-> EmptyMap]
    ELSE LET one  == MergeGroup([k \in 1..Len(Head(gs)) |-> ents[Head(gs)[k]]] \o <<>>)
             rest == MergeGroups(ents, Tail(gs))
         IN  [ents |-> one.ents \o rest.ents, map |-> Update(one.map, rest.map)]

dedup_by_alias_cross_ref(entities) ==
    IF entities = <<>> THEN [ents |-> entities, map |-> EmptyMap]
    ELSE MergeGroups(entities, Groups(entities))

-----------------------------------------------------------------------------
(* Ingestion: layer 2 (dedup_by_llm) and remap_relations *)

NamesOf(ents) == {ents[k].name : k \in 1..Len(ents)}

\* dedup_by_llm, lines 324-340: the dict name_map built from the groups of
\* the answer; keys lists its keys in insertion order.
RECURSIVE GroupsMap(_, _, _)
GroupsMap(groups, name_set, acc) ==
    IF groups = <<>> THEN acc
    ELSE LET g    == Head(groups)
             dups == SelectSeq(g.duplicates,
                               LAMBDA d : d \in name_set /\ d # g.canonical)
             new  == [d \in Range(dups) |-> g.canonical]
         IN  GroupsMap(Tail(groups), name_set,
                       IF g.canonical \notin name_set THEN acc
                       ELSE [keys |-> ExtendAliases(acc.keys, dups, {}),
                             map  |-> Update(acc.map, new)])

\* dedup_by_llm, lines 347-362: the duplicates of keys merged, one after the
\* other, into their canonical entities; ents are the values of ent_by_name.
RECURSIVE MergeDuplicates(_, _, _)
MergeDuplicates(ents, keys, map) ==
    IF keys = <<>> THEN ents
    ELSE LET dup_name   == Head(keys)
             canon_name == map[dup_name]
         IN  IF dup_name \notin NamesOf(ents) \/ canon_name \notin NamesOf(ents)
             THEN MergeDuplicates(ents, Tail(keys), map)
             ELSE LET d == CHOOSE k \in 1..Len(ents) : ents[k].name = dup_name
                      dup_normalized == [ents[d] EXCEPT !.name = canon_name]
                      rest == SelectSeq(ents, LAMBDA e : e.name # dup_name)
                      c == CHOOSE k \in 1..Len(rest) : rest[k].name = canon_name
                      merged_ent == merge_entities(<< <<rest[c], dup_normalized>> >>)[1]
                  IN  MergeDuplicates(
                          [rest EXCEPT ![c] =
                              [merged_ent EXCEPT
                                  !.aliases = ExtendAliases(@, <<dup_name>>, {}),
                                  !.id = make_entity_id(canon_name)]],
                          Tail(keys), map)

\* dedup_by_llm after its model call: parsed is FALSE when the text holds no
\* JSON object, and groups is the list "groups" of the object otherwise.
dedup_by_llm(entities, parsed, groups) ==
    IF ~parsed \/ groups = <<>> THEN [ents |-> entities, map |-> EmptyMap]
    ELSE LET nm == GroupsMap(groups, NamesOf(entities), [keys |-> <<>>, map |-> EmptyMap])
         IN  IF nm.keys = <<>> THEN [ents |-> entities, map |-> EmptyMap]
             ELSE [ents |-> MergeDuplicates(entities, nm.keys, nm.map), map |-> nm.map]

\* _resolve_name: seen is the set of the names passed.
RECURSIVE ResolveFrom(_, _, _)
ResolveFrom(name, name_map, seen) ==
    IF name \in DOMAIN name_map /\ name \notin seen
    THEN ResolveFrom(name_map[name], name_map, seen \cup {name})
    ELSE name

_resolve_name(name, name_map) == ResolveFrom(name, name_map, {})

\* A remap_relations that would keep every remapped relation.
RECURSIVE RemapKeepingAll(_, _, _)
RemapKeepingAll(relations, name_map, result) ==
    IF relations = <<>> THEN result
    ELSE LET rel == Head(relations)
         IN  RemapKeepingAll(Tail(relations), name_map,
                 Append(result, Relation(_resolve_name(rel.source, name_map),
                                         _resolve_name(rel.target, name_map),
                                         rel.type)))

\* remap_relations, lines 384-398: the loop; result is the list built so far
\* (`seen` holds the keys of its relations).
RECURSIVE RemapFrom(_, _, _)
RemapFrom(relations, name_map, result) ==
    IF relations = <<>> THEN result
    ELSE LET rel == Head(relations)
             src == _resolve_name(rel.source, name_map)
             tgt == _resolve_name(rel.target, name_map)
             new == Relation(src, tgt, rel.type)
         IN  RemapFrom(Tail(relations), name_map,
                       IF src = tgt \/ new \in Range(result) THEN result
                       ELSE Append(result, new))

remap_relations(relations, name_map) == RemapFrom(relations, name_map, <<>>)

-----------------------------------------------------------------------------
(* Ingestion: one extract_entities_and_relations call *)

SeqsUpTo(S, n) == UNION {[1..k -> S] : k \in 0..n}

\* What the extraction model may answer for a chunk, as far as
\* _parse_extraction reads it: the name and the aliases of each item of
\* "entities", the source, target and type of each item of "relations".
RawEntities ==
    {[name |-> n, aliases |-> <<>>] : n \in EntityNames}
        \cup {[name |-> <<"c", "d", "e">>, aliases |-> << <<" ", "A", "B">> >>],
              [name |-> <<"f", "g">>, aliases |-> << <<"c", "d", "e">> >>]}
RawRelations == [source : EntityNames, target : EntityNames, type : RelationTypes]

\* _parse_extraction: the entities with a name, and the relations with both
\* endpoints among the names of these entities.
_parse_extraction(raw) ==
    LET named    == SelectSeq(raw.entities, LAMBDA e : Trim(e.name) # <<>>)
        entities == [k \in 1..Len(named) |->
                        Entity(Trim(named[k].name),
                               SelectSeq(named[k].aliases, LAMBDA a : Trim(a) # <<>>))]
                    \o <<>>
        ended    == SelectSeq(raw.relations,
                              LAMBDA r : Trim(r.source) # <<>> /\ Trim(r.target) # <<>>)
        relations == [k \in 1..Len(ended) |->
                        Relation(Trim(ended[k].source), Trim(ended[k].target),
                                 ended[k].type)] \o <<>>
    IN  [entities |-> entities,
         relations |-> SelectSeq(relations,
                           LAMBDA r : r.source \in NamesOf(entities)
                                        /\ r.target \in NamesOf(entities))]

\* The ways to cut a list in n pieces.
RECURSIVE Splits(_, _)
Splits(items, n) ==
    IF n = 0 THEN (IF items = <<>> THEN {<<>>} ELSE {})
    ELSE UNION {{<<SubSeq(items, 1, k)>> \o rest :
                    rest \in Splits(SubSeq(items, k + 1, Len(items)), n - 1)} :
                k \in 0..Len(items)}

\* What the chunks whose _extract_one_chunk returned were answered (the
\* first answer, or the one of the retry), n chunks in the order of the text.
ChunkAnswers(n) ==
    {[c \in 1..n |-> [entities |-> es[c], relations |-> rs[c]]] :
        es \in UNION {Splits(e, n) : e \in SeqsUpTo(RawEntities, MaxEntities)},
        rs \in UNION {Splits(r, n) : r \in SeqsUpTo(RawRelations, MaxRelations)}}

\* No call is under way.
IngestIdle ==
    /\ ingPc = "idle"
    /\ ingEntities = <<>>
    /\ ingRelations = <<>>
    /\ ingNameMap = EmptyMap
    /\ ingFirst = [ents |-> <<>>, map |-> EmptyMap]

\* extract_entities_and_relations is suspended in asyncio.gather.
IngestStart ==
    /\ ingPc = "extract"
    /\ ingEntities = <<>>
    /\ ingRelations = <<>>
    /\ ingNameMap = EmptyMap
    /\ ingFirst = [ents |-> <<>>, map |-> EmptyMap]

\* Lines 446-462: the name maps combined, the relations remapped, the return.
IngestReturns(relations, name_map, llm) ==
    /\ ingPc' = "done"
    /\ ingEntities' = llm.ents
    /\ ingNameMap' = Update(name_map, llm.map)
    /\ ingRelations' = remap_relations(relations, ingNameMap')

\* Lines 422-446: gather returned; the chunks in `failed` raised and are
\* dropped, the others were answered `answers`. The entities are merged,
\* layer 1 is applied, and dedup_by_llm is entered, which returns at once
\* when there are fewer than two entities.
IngestExtracted(failed, answers) ==
    /\ ingPc = "extract"
    /\ LET results == [k \in 1..Len(answers) |-> _parse_extraction(answers[k])] \o <<>>
           merged  == merge_entities([k \in 1..Len(results) |-> results[k].entities])
           all_relations == Flatten([k \in 1..Len(results) |-> results[k].relations])
       IN  /\ ingFirst' = dedup_by_alias_cross_ref(merged)
           /\ IF Len(ingFirst'.ents) < 2
              THEN IngestReturns(all_relations, ingFirst'.map,
                                 [ents |-> ingFirst'.ents, map |-> EmptyMap])
              ELSE /\ ingPc' = "dedup_llm"
                   /\ ingEntities' = ingFirst'.ents
                   /\ ingNameMap' = ingFirst'.map
                   /\ ingRelations' = all_relations
    /\ UNCHANGED <<gqVars, agentVars>>

\* What the deduplication model may answer: the groups of its JSON object.
DedupNames == {n \in EntityNames : Lower(n) = n}
DedupGroups == [canonical : DedupNames, duplicates : {<<d>> : d \in DedupNames}]
DedupAnswers == SeqsUpTo(DedupGroups, MaxGroups)

\* dedup_by_llm, lines 305-364: the model call raises, or returns a text
\* with no JSON object in it, or returns an object with these groups.
IngestDedupAnswered(o, groups) ==
    /\ ingPc = "dedup_llm"
    /\ IF o = "raise"
       THEN /\ ingPc' = "raised"
            /\ UNCHANGED <<ingEntities, ingRelations, ingNameMap>>
       ELSE IngestReturns(ingRelations, ingNameMap, dedup_by_llm(ingEntities, o = "ok", groups))
    /\ UNCHANGED ingFirst
    /\ UNCHANGED <<gqVars, agentVars>>

IngestNext ==
    \/ /\ ingPc = "extract"
       /\ \E failed \in SUBSET (1..MaxChunks) :
            \E answers \in ChunkAnswers(MaxChunks - Cardinality(failed)) :
                IngestExtracted(failed, answers)
    \/ /\ ingPc = "dedup_llm"
       /\ \/ \E groups \in DedupAnswers : IngestDedupAnswered("ok", groups)
          \/ \E o \in {"unparseable", "raise"} : IngestDedupAnswered(o, <<>>)

-----------------------------------------------------------------------------
(* Ingestion: remap_relations and layer 1 on their own *)

\* Most relations in a list given to remap_relations.
MaxRelationList == 2

\* The lists of relations, and the name maps over the names the
\* deduplication model may give: chains and cycles are among them.
RelationLists == SeqsUpTo(RawRelations, MaxRelationList)
NameMaps == UNION {[keys -> DedupNames] : keys \in SUBSET DedupNames}

\* remap_relations(ingRelations, ingNameMap) returns.
Remapped ==
    /\ ingPc = "remap"
    /\ ingPc' = "remapped"
    /\ ingRelations' = remap_relations(ingRelations, ingNameMap)
    /\ UNCHANGED <<ingEntities, ingNameMap, ingFirst>>
    /\ UNCHANGED <<gqVars, agentVars>>

\* The lists merge_entities returns for the entities of one answer.
MergedLists ==
    {merge_entities(<<_parse_extraction([entities |-> es, relations |-> <<>>]).entities>>) :
        es \in SeqsUpTo(RawEntities, MaxEntities)}

\* dedup_by_alias_cross_ref(ingEntities) returns.
DedupOnce ==
    /\ ingPc = "layer1"
    /\ ingPc' = "once"
    /\ ingFirst' = dedup_by_alias_cross_ref(ingEntities)
    /\ UNCHANGED <<ingEntities, ingRelations, ingNameMap>>
    /\ UNCHANGED <<gqVars, agentVars>>

\* dedup_by_alias_cross_ref returns for the entities of its first result.
DedupAgain ==
    /\ ingPc = "once"
    /\ ingPc' = "twice"
    /\ LET again == dedup_by_alias_cross_ref(ingFirst.ents)
       IN  /\ ingEntities' = again.ents
           /\ ingNameMap' = again.map
    /\ UNCHANGED <<ingRelations, ingFirst>>
    /\ UNCHANGED <<gqVars, agentVars>>

\* Answers of the extraction model in which two entities have an alias in
\* common, and the lists merge_entities returns for them.
SharingEntities ==
    RawEntities \cup {[name |-> <<"a", "b">>, aliases |-> << <<"h", "i">> >>],
                      [name |-> <<"f", "g">>, aliases |-> << <<"h", "i">> >>]}

SharingLists ==
    {merge_entities(<<_parse_extraction([entities |-> es, relations |-> <<>>]).entities>>) :
        es \in SeqsUpTo(SharingEntities, MaxEntities)}

-----------------------------------------------------------------------------
(* ChatService: the turns of one session (kg_rag/api/service.py) *)

\* settings.session_history_rounds of the service.
HistoryRounds == 2

\* "抱歉，我暂时无法生成可用回答。"
Apology == <<"apology">>

\* The questions a caller sends: texts of words and line breaks.
Questions == { <<"q">>, <<"NL", "q", "NL">>, <<"NL">>, <<>> }

\* The state the agent hands back, as far as ChatService reads it: with a
\* final_answer, or without the key.
AgentResults ==
    { [iteration |-> 1] }
      \cup { [iteration |-> 1, final_answer |-> a] :
               a \in { <<>>, <<"NL">>, <<"answer">>, <<"NL", "answer">>, <<"__READY__">> } }

\* str(result.get("final_answer", ""))
FinalAnswerText(result) ==
    IF "final_answer" \in DOMAIN result THEN result.final_answer ELSE <<>>

\* ask, lines 127-129: the answer that is persisted and returned.
AnswerOfAsk(result) ==
    LET answer == Strip(FinalAnswerText(result))
    IN  IF answer = <<>> THEN Apology ELSE answer

\* ask_stream, lines 254-256
AnswerOfAskStream(result) ==
    LET answer == Strip(FinalAnswerText(result))
    IN  IF answer = <<>> \/ answer = <<"__READY__">> THEN Apology ELSE answer

\* The answer taken from the result as it is.
AnswerAsIs(result, streaming) == Strip(FinalAnswerText(result))

AnswerOf(result, streaming) ==
    IF streaming THEN AnswerOfAskStream(result) ELSE AnswerOfAsk(result)

\* A row of the messages table; `turn` is the call that appended it.
Message(role, content, turn) == [role |-> role, content |-> content, turn |-> turn]

\* SqliteSessionStore.list_messages: the rows in message_id order, from
\* `offset` on, at most max(1, min(limit, 1000)) of them.
ListLimit == 1000
list_messages(rows, limit, offset) ==
    LET lim == IF limit > ListLimit THEN ListLimit ELSE IF limit < 1 THEN 1 ELSE limit
        off == IF offset < 0 THEN 0 ELSE offset
        to  == IF off + lim < Len(rows) THEN off + lim ELSE Len(rows)
    IN  SubSeq(rows, off + 1, to)

\* get_recent_rounds, lines 439-447: the loop over the rows; pending is the
\* last user row not yet paired (<<>>: none).  A round is <<user row,
\* assistant row>>.
RECURSIVE Rounds(_, _)
Rounds(rows, pending) ==
    IF rows = <<>> THEN <<>>
    ELSE IF Head(rows).role = "user" THEN Rounds(Tail(rows), <<Head(rows)>>)
    ELSE IF Head(rows).role = "assistant" /\ pending # <<>>
         THEN <<pending \o <<Head(rows)>>>> \o Rounds(Tail(rows), <<>>)
    ELSE Rounds(Tail(rows), pending)

\* get_recent_rounds with the rows kept whole.
RecentRounds(rows, max_rounds) ==
    IF max_rounds <= 0 THEN <<>>
    ELSE LET rounds == Rounds(list_messages(rows, 2000, 0), <<>>)
         IN  IF Len(rounds) > max_rounds
             THEN SubSeq(rounds, Len(rounds) - max_rounds + 1, Len(rounds))
             ELSE rounds

\* SqliteSessionStore.get_recent_rounds: (user text, assistant text) pairs.
get_recent_rounds(rows, max_rounds) ==
    LET rounds == RecentRounds(rows, max_rounds)
    IN  [k \in 1..Len(rounds) |-> <<rounds[k][1].content, rounds[k][2].content>>]

\* pc: "idle" (no call), then the await the call is suspended at: "rounds"
\* (get_recent_rounds), "append_user", "agent" (the profile reader and the
\* agent), "append_assistant", "profile" (_update_profile_from_turn);
\* "returned" or "raised".  blank: the final answer of the agent was missing,
\* empty or white space.  delivered: the TurnResult returned or the done
\* event yielded, as far as final_answer and the assistant message go.
NoAsk ==
    [pc |-> "idle", streaming |-> FALSE, question |-> <<>>, history |-> <<>>,
     blank |-> FALSE, answer |-> <<>>, delivered |-> <<>>, profile |-> "",
     error |-> "", events |-> <<>>]

ChatIdle ==
    /\ ask = [t \in Turns |-> NoAsk]
    /\ messages = <<>>

AskRaises(t, error) ==
    ask' = [ask EXCEPT ![t].pc = "raised", ![t].error = error]

\* ask / ask_stream are called, lines 86-100 and 190-204; the session exists
\* and belongs to the user.
AskBegins(t, streaming, question) ==
    /\ ask[t].pc = "idle"
    /\ IF Strip(question) = <<>>
       THEN AskRaises(t, "question cannot be empty")
       ELSE ask' = [ask EXCEPT ![t].pc = "rounds", ![t].streaming = streaming,
                               ![t].question = Strip(question)]
    /\ UNCHANGED messages
    /\ UNCHANGED <<gqVars, graphVars, ingestVars>>

\* get_recent_rounds returns, lines 97-100 and 201-204.
AskReadsRounds(t) ==
    /\ ask[t].pc = "rounds"
    /\ ask' = [ask EXCEPT ![t].pc = "append_user",
                          ![t].history = get_recent_rounds(messages, HistoryRounds)]
    /\ UNCHANGED messages
    /\ UNCHANGED <<gqVars, graphVars, ingestVars>>

\* SqliteSessionStore.append_message, lines 331-353: the row is added, or
\* ValueError is raised for a content that strips to nothing.
append_message(rows, role, content, turn) ==
    IF Strip(content) = <<>> THEN rows
    ELSE Append(rows, Message(role, Strip(content), turn))

\* The user message is appended, lines 102-106 and 206-210.
AskAppendsUser(t) ==
    /\ ask[t].pc = "append_user"
    /\ messages' = append_message(messages, "user", ask[t].question, t)
    /\ ask' = [ask EXCEPT ![t].pc = "agent"]
    /\ UNCHANGED <<gqVars, graphVars, ingestVars>>

\* The profile reader and the agent return, lines 114-129 and 234-256; or one
\* of them raises (raised).
AskAgentDone(t, raised, result) ==
    /\ ask[t].pc = "agent"
    /\ IF raised
       THEN AskRaises(t, "agent")
       ELSE ask' = [ask EXCEPT ![t].pc = "append_assistant",
                               ![t].blank = (Strip(FinalAnswerText(result)) = <<>>),
                               ![t].answer = AnswerOf(result, ask[t].streaming)]
    /\ UNCHANGED messages
    /\ UNCHANGED <<gqVars, graphVars, ingestVars>>

\* The assistant message is appended, lines 131-135 and 258-278; ask_stream
\* yields its done event.
AskAppendsAssistant(t) ==
    /\ ask[t].pc = "append_assistant"
    /\ messages' = append_message(messages, "assistant", ask[t].answer, t)
    /\ IF Strip(ask[t].answer) = <<>>
       THEN AskRaises(t, "content cannot be empty")
       ELSE ask' = [ask EXCEPT
                      ![t].pc = "profile",
                      ![t].delivered =
                          IF ask[t].streaming
                          THEN << [final_answer |-> ask[t].answer,
                                   assistant_message |-> Strip(ask[t].answer)] >>
                          ELSE @]
    /\ UNCHANGED <<gqVars, graphVars, ingestVars>>

\* _update_profile_from_turn returns, lines 285-299: the update was made, or
\* its exception was swallowed.  ask then returns its TurnResult (lines
\* 143-170); ask_stream is over.
AskProfileDone(t, ok) ==
    /\ ask[t].pc = "profile"
    /\ ask' = [ask EXCEPT
                 ![t].pc = "returned",
                 ![t].profile = IF ok THEN "updated" ELSE "failed",
                 ![t].delivered =
                     IF ask[t].streaming THEN @
                     ELSE << [final_answer |-> ask[t].answer,
                              assistant_message |-> Strip(ask[t].answer)] >>]
    /\ UNCHANGED messages
    /\ UNCHANGED <<gqVars, graphVars, ingestVars>>

ChatNext ==
    /\ \/ \E t \in Turns, streaming \in BOOLEAN, question \in Questions :
            AskBegins(t, streaming, question)
       \/ \E t \in Turns : AskReadsRounds(t)
       \/ \E t \in Turns : AskAppendsUser(t)
       \/ \E t \in Turns, result \in AgentResults : AskAgentDone(t, FALSE, result)
       \/ \E t \in Turns : AskAgentDone(t, TRUE, [iteration |-> 0])
       \/ \E t \in Turns : AskAppendsAssistant(t)
       \/ \E t \in Turns, ok \in BOOLEAN : AskProfileDone(t, ok)
    /\ UNCHANGED storeVars

-----------------------------------------------------------------------------
(* chat_turn_stream.event_generator over ChatService.ask_stream: the events *)
(* of one streamed turn (kg_rag/api/app.py, kg_rag/api/service.py)          *)

\* The custom and state events one streamed turn may carry in the model.
MaxEvents == 3

\* What may be raised inside ask_stream, by the except clause of
\* event_generator that catches it (app.py, lines 390-398).
Exceptions == {"KeyError", "PermissionError", "ValueError", "Exception"}

\* An event as event_generator writes it: its type, and for an error event
\* its detail.
Event(type) == [event |-> type, detail |-> ""]

\* A generator whose except clauses write nothing.
Uncaught(events, exc) == events

\* event_generator, lines 390-398: the exception that ends ask_stream is
\* caught and one error event is written, with str(exc) for the three
\* expected kinds and a fixed text for any other.
event_generator(events, exc) ==
    Append(events,
           [event |-> "error",
            detail |-> IF exc \in {"KeyError", "PermissionError", "ValueError"}
                       THEN "str(exc)" ELSE "failed to process chat turn"])

SseRaises(t, error, exc) ==
    ask' = [ask EXCEPT ![t].pc = "raised", ![t].error = error,
                       ![t].events = event_generator(@, exc)]

\* ask_stream is iterated, service.py lines 190-204: a blank question raises
\* ValueError; otherwise the recent rounds are read.
SseBegins(t, question) ==
    /\ ask[t].pc = "idle"
    /\ IF Strip(question) = <<>>
       THEN SseRaises(t, "question cannot be empty", "ValueError")
       ELSE ask' = [ask EXCEPT ![t].pc = "append_user", ![t].streaming = TRUE,
                               ![t].question = Strip(question),
                               ![t].history =
                                   get_recent_rounds(messages, HistoryRounds)]
    /\ UNCHANGED messages
    /\ UNCHANGED <<gqVars, graphVars, ingestVars, storeVars>>

\* The user message is appended and the metadata event is yielded, lines
\* 206-226.
SseAppendsUser(t) ==
    /\ ask[t].pc = "append_user"
    /\ messages' = append_message(messages, "user", ask[t].question, t)
    /\ ask' = [ask EXCEPT ![t].pc = "agent",
                          ![t].events = Append(@, Event("metadata"))]
    /\ UNCHANGED <<gqVars, graphVars, ingestVars, storeVars>>

\* The agent yields one chunk, lines 247-264: a custom or a state event.
SseAgentYields(t, mode) ==
    /\ ask[t].pc = "agent"
    /\ Len(ask[t].events) <= MaxEvents
    /\ ask' = [ask EXCEPT ![t].events =
                 Append(@, Event(IF mode = "custom" THEN "custom" ELSE "state"))]
    /\ UNCHANGED messages
    /\ UNCHANGED <<gqVars, graphVars, ingestVars, storeVars>>

\* The profile reader or the agent raises, lines 234-252.
SseAgentRaises(t, exc) ==
    /\ ask[t].pc = "agent"
    /\ SseRaises(t, "agent", exc)
    /\ UNCHANGED messages
    /\ UNCHANGED <<gqVars, graphVars, ingestVars, storeVars>>

\* The agent's stream is exhausted, lines 266-272.
SseAgentEnds(t, result) ==
    /\ ask[t].pc = "agent"
    /\ ask' = [ask EXCEPT ![t].pc = "append_assistant",
                          ![t].blank = (Strip(FinalAnswerText(result)) = <<>>),
                          ![t].answer = AnswerOf(result, TRUE)]
    /\ UNCHANGED messages
    /\ UNCHANGED <<gqVars, graphVars, ingestVars, storeVars>>

\* The assistant message is appended and the done event is yielded, lines
\* 274-292; or append_message raises (exc).
SseAppendsAssistant(t, exc) ==
    /\ ask[t].pc = "append_assistant"
    /\ IF exc = "none"
       THEN /\ messages' = append_message(messages, "assistant", ask[t].answer, t)
            /\ IF Strip(ask[t].answer) = <<>>
               THEN SseRaises(t, "content cannot be empty", "ValueError")
               ELSE ask' = [ask EXCEPT
                              ![t].pc = "profile",
                              ![t].delivered =
                                  << [final_answer |-> ask[t].answer,
                                      assistant_message |-> Strip(ask[t].answer)] >>,
                              ![t].events = Append(@, Event("done"))]
       ELSE /\ SseRaises(t, "append_message", exc)
            /\ UNCHANGED messages
    /\ UNCHANGED <<gqVars, graphVars, ingestVars, storeVars>>

\* _update_profile_from_turn returns, lines 294-313: the update was made, or
\* its exception was swallowed; ask_stream is over and event_generator ends.
SseProfileDone(t, ok) ==
    /\ ask[t].pc = "profile"
    /\ ask' = [ask EXCEPT ![t].pc = "returned",
                          ![t].profile = IF ok THEN "updated" ELSE "failed"]
    /\ UNCHANGED messages
    /\ UNCHANGED <<gqVars, graphVars, ingestVars, storeVars>>

SseNext ==
    \/ \E question \in Questions : SseBegins(1, question)
    \/ SseAppendsUser(1)
    \/ \E mode \in {"custom", "values"} : SseAgentYields(1, mode)
    \/ \E exc \in Exceptions : SseAgentRaises(1, exc)
    \/ \E result \in AgentResults : SseAgentEnds(1, result)
    \/ \E exc \in Exceptions \cup {"none"} : SseAppendsAssistant(1, exc)
    \/ \E ok \in BOOLEAN : SseProfileDone(1, ok)

-----------------------------------------------------------------------------
(* Specifications *)

\* No graph_query call is under way / no turn is in flight.
AgentIdle ==
    /\ agent_concurrency = 1
    /\ node = [t \in Turns |-> "idle"]
    /\ iteration = [t \in Turns |-> 0]
    /\ max_iterations = [t \in Turns |-> 1]
    /\ todos = [t \in Turns |-> <<>>]
    /\ intermediate_results = [t \in Turns |-> <<>>]
    /\ final_answer = [t \in Turns |-> ""]
    /\ verdict = [t \in Turns |-> <<>>]
    /\ writer = [t \in Turns |-> "none"]
    /\ gathering = [t \in Turns |-> FALSE]
    /\ sub = [t \in Turns |-> <<>>]
    /\ sem = [t \in Turns |-> 0]
    /\ doneOrder = [t \in Turns |-> <<>>]
    /\ plans = [t \in Turns |-> 0]
    /\ judges = [t \in Turns |-> 0]
    /\ sawSufficient = [t \in Turns |-> FALSE]
    /\ sawSufficientAnyCase = [t \in Turns |-> FALSE]
    /\ failedIn = [t \in Turns |-> ""]
    /\ max_steps = MaxSteps
    /\ run = NoCalls
    /\ nodeRuns = NoRuns
    /\ ChatIdle
    /\ StoreIdle
    /\ StreamIdle
    /\ ChunkerIdle

\* The turns of `live` have been started as AgentService.ask starts them
\* (api/service.py, lines 116-125): iteration 0, no todos, no results.
TurnsStarted(live, modes) ==
    /\ agent_concurrency \in 1..MaxConcurrency
    /\ node = [t \in Turns |-> IF t \in live THEN "plan" ELSE "idle"]
    /\ iteration = [t \in Turns |-> 0]
    /\ max_iterations \in [Turns -> 1..MaxIter]
    /\ \A t \in Turns \ live : max_iterations[t] = 1
    /\ todos = [t \in Turns |-> <<>>]
    /\ intermediate_results = [t \in Turns |-> <<>>]
    /\ final_answer = [t \in Turns |-> ""]
    /\ verdict = [t \in Turns |-> <<>>]
    /\ writer \in [Turns -> WriterModes]
    /\ \A t \in live : writer[t] \in modes
    /\ \A t \in Turns \ live : writer[t] = "none"
    /\ gathering = [t \in Turns |-> FALSE]
    /\ sub = [t \in Turns |-> <<>>]
    /\ sem = [t \in Turns |-> 0]
    /\ doneOrder = [t \in Turns |-> <<>>]
    /\ plans = [t \in Turns |-> 0]
    /\ judges = [t \in Turns |-> 0]
    /\ sawSufficient = [t \in Turns |-> FALSE]
    /\ sawSufficientAnyCase = [t \in Turns |-> FALSE]
    /\ failedIn = [t \in Turns |-> ""]
    /\ run = NoCalls
    /\ nodeRuns = NoRuns
    /\ ChatIdle
    /\ StoreIdle
    /\ StreamIdle
    /\ ChunkerIdle

\* One graph_query call.
GQInit == GQStart /\ AgentIdle /\ IngestIdle
SpecGQ == GQInit /\ [][GQNext]_vars

\* One graph_query call on an answer with comments and string literals.
SpecLex == GQInit /\ [][LexNext]_vars

\* One graph_query call with the retry decorators of the store at work.
SpecRetry == GQInit /\ [][RetryNext]_vars

\* One plan, judge or respond step with its model calls and stream events.
SpecStream == GQInit /\ [][StreamNext]_vars

\* One chunk_by_tokens call; the loop, once entered, goes on.
SpecChunk == GQInit /\ [][ChunkNext]_vars /\ WF_vars(ChunkStep)

\* One turn, with any stream writer.
Init ==
    /\ GQStart
    /\ TurnsStarted({1}, WriterModes)
    /\ max_steps = MaxSteps
    /\ IngestIdle
Next == AgentNext
Spec == Init /\ [][Next]_vars

\* The first plan step of a turn, on any answer of the Planner.
PlanNext == \E answer \in PlannerTexts : PlanReturns(answer)
SpecPlan == Init /\ [][PlanNext]_vars

\* The same, the event loop running a step as long as one can be taken: every
\* call that is awaited returns or raises.
SpecFair == Spec /\ WF_vars(Next)

\* Two turns in flight in one process (two requests served at once), each of
\* one iteration and with a Planner that answers with at most one item.
TwoTurnsInit ==
    /\ GQStart
    /\ TurnsStarted(Turns, WriterModes)
    /\ \A t \in Turns : max_iterations[t] = 1
    /\ max_steps = MaxSteps
    /\ IngestIdle
TwoTurnsNext ==
    /\ \E t \in Turns : TurnNext(t, {a \in PlannerAnswers : Len(a) <= 1})
    /\ UNCHANGED <<run, nodeRuns, chatVars, storeVars>>
SpecTwoTurns == TwoTurnsInit /\ [][TwoTurnsNext]_vars

\* One sub-task run under any step cap: a turn whose Planner answers with one
\* item, up to the return of its execute_node call.
OneRunInit ==
    /\ GQStart
    /\ TurnsStarted({1}, WriterModes)
    /\ max_steps \in 1..MaxStepCap
    /\ IngestIdle
SpecOneRun == OneRunInit /\ [][OneRunNext]_vars

\* One turn, the runs of its nodes counted.
SpecCycles == Init /\ [][CyclesNext]_vars

\* Two ChatService calls on one session, interleaved at their awaits.
ChatInit == GQStart /\ AgentIdle /\ IngestIdle
SpecChat == ChatInit /\ [][ChatNext]_vars

\* One streamed turn on a session, with the events its client is sent.
SpecSse == ChatInit /\ [][SseNext]_vars

\* One extract_entities_and_relations call.
IngestInit == GQStart /\ AgentIdle /\ IngestStart
SpecIngest == IngestInit /\ [][IngestNext]_vars

\* remap_relations applied to a list of relations and a name map.
RemapInit ==
    /\ GQStart
    /\ AgentIdle
    /\ ingPc = "remap"
    /\ ingEntities = <<>>
    /\ ingRelations \in RelationLists
    /\ ingNameMap \in NameMaps
    /\ ingFirst = [ents |-> <<>>, map |-> EmptyMap]
SpecRemap == RemapInit /\ [][Remapped]_vars

\* dedup_by_alias_cross_ref applied to a list that merge_entities returned,
\* and then to its own result.
DedupTwiceInit ==
    /\ GQStart
    /\ AgentIdle
    /\ ingPc = "layer1"
    /\ ingEntities \in MergedLists
    /\ ingRelations = <<>>
    /\ ingNameMap = EmptyMap
    /\ ingFirst = [ents |-> <<>>, map |-> EmptyMap]
DedupTwiceNext == DedupOnce \/ DedupAgain
SpecDedupTwice == DedupTwiceInit /\ [][DedupTwiceNext]_vars

\* dedup_by_alias_cross_ref applied to a list that merge_entities returned
\* for entities that may have an alias in common.
LayerOneInit ==
    /\ GQStart
    /\ AgentIdle
    /\ ingPc = "layer1"
    /\ ingEntities \in SharingLists
    /\ ingRelations = <<>>
    /\ ingNameMap = EmptyMap
    /\ ingFirst = [ents |-> <<>>, map |-> EmptyMap]
SpecLayerOne == LayerOneInit /\ [][DedupOnce]_vars

-----------------------------------------------------------------------------
(* Properties of graph_query *)

QueryInFlight == gqPc \in {"execute", "execute2"}

\* C1: every query text passed to the graph store contains, once comments are
\* stripped, no forbidden keyword, a RETURN and a LIMIT.
C1_ExecutedQueryIsBoundedRead ==
    QueryInFlight =>
        LET s == _strip_cypher_comments(gqCypher)
        IN  /\ ~HasForbidden(s)
            /\ "RETURN" \in Range(s)
            /\ "LIMIT" \in Range(s)

-----------------------------------------------------------------------------
(* Properties of the agent turn *)

Finished(t) == node[t] \in {"END", "failed"}

\* C3 as stated: when a turn reaches END, 1 <= iteration <= max_iterations,
\* and iteration = max_iterations if no verdict started with SUFFICIENT.
C3_IterationAtEnd ==
    \A t \in Turns : node[t] = "END" =>
        /\ 1 <= iteration[t]
        /\ iteration[t] <= max_iterations[t]
        /\ ~sawSufficient[t] => iteration[t] = max_iterations[t]

\* C3 (amended): when a turn reaches END, 1 <= iteration <= max_iterations,
\* and iteration = max_iterations if no verdict started with SUFFICIENT in
\* any letter case.
C3_IterationAtEndAnyCase ==
    \A t \in Turns : node[t] = "END" =>
        /\ 1 <= iteration[t]
        /\ iteration[t] <= max_iterations[t]
        /\ ~sawSufficientAnyCase[t] => iteration[t] = max_iterations[t]

\* A turn ended after more than one iteration without any SUFFICIENT verdict.
C3_Witness ==
    \E t \in Turns :
        /\ node[t] = "END"
        /\ ~sawSufficientAnyCase[t]
        /\ iteration[t] > 1
        /\ iteration[t] = max_iterations[t]

\* The cycle was entered at most max_iterations times, and the
\* max_iterations-th Judge step is followed by respond.
CycleBounded ==
    \A t \in Turns :
        /\ plans[t] <= max_iterations[t]
        /\ judges[t] <= plans[t]
        /\ node[t] = "plan" => plans[t] < max_iterations[t]
        /\ judges[t] = max_iterations[t] => node[t] \in {"respond", "END", "failed"}

\* C4: whatever the Judge replies, the cycle is entered at most max_iterations
\* times, the turn is at respond right after the max_iterations-th Judge step
\* at the latest, and, every call returning or raising, the turn ends.
C4_TurnEndsWithinCeiling ==
    /\ []CycleBounded
    /\ <>(\A t \in Turns : node[t] = "idle" \/ Finished(t))

\* The Judge never found the results sufficient and the turn went to respond
\* after its max_iterations-th step, the ceiling being more than 1.
C4_Witness ==
    \E t \in Turns :
        /\ node[t] = "respond"
        /\ judges[t] = max_iterations[t]
        /\ max_iterations[t] > 1
        /\ ~sawSufficientAnyCase[t]

\* Right after a Judge step, and until the next node has run, the turn is at
\* respond or at plan, `verdict` is that step's verdict and iteration is
\* unchanged.
AfterJudge(t) == judges[t] = plans[t] /\ node[t] \in {"respond", "plan"}

\* C5 as stated: after each Judge step the next node is respond iff the
\* verdict starts with SUFFICIENT or iteration >= max_iterations, and plan
\* otherwise.
C5_RoutingAfterJudge ==
    \A t \in Turns : (judges[t] >= 1 /\ AfterJudge(t)) =>
        (node[t] = "respond" <=>
            (StartsWith(verdict[t], SUFFICIENT) \/ iteration[t] >= max_iterations[t]))

\* C5 (amended): after each Judge step the next node is respond iff the
\* verdict starts with SUFFICIENT in any letter case or iteration >=
\* max_iterations, and plan otherwise.
C5_RoutingAfterJudgeAnyCase ==
    \A t \in Turns : (judges[t] >= 1 /\ AfterJudge(t)) =>
        (node[t] = "respond" <=>
            (StartsWith(Upper(verdict[t]), SUFFICIENT)
                \/ iteration[t] >= max_iterations[t]))

\* An empty verdict below the ceiling sent the turn back to plan.
C5_Witness ==
    \E t \in Turns :
        /\ judges[t] >= 1
        /\ AfterJudge(t)
        /\ verdict[t] = <<>>
        /\ node[t] = "plan"

\* The tasks of the execute_node call of turn t.
Tasks(t) == DOMAIN sub[t]

\* C6: a sub-task whose reasoning loop raised is contained: its _run_one
\* returns the "ERROR: sub-task failed" entry with its todo marked completed
\* (so that execute returns one entry per todo and the turn goes on).
C6_LoopFailureContained ==
    \A t \in Turns : \A i \in Tasks(t) :
        (sub[t][i].loopRaised /\ Ended(sub[t][i])) =>
            /\ sub[t][i].pc = "returned"
            /\ sub[t][i].ret = "ERROR: sub-task failed"
            /\ sub[t][i].status = "completed"

\* The tool-call events of log that carry id, with status in sts.
EventsOf(log, id, sts) == {k \in 1..Len(log) : log[k].id = id /\ log[k].status \in sts}

\* C7: when a sub-task run has ended, each tool-call id of its events is in
\* exactly one pending event and, later, in exactly one terminal event.
C7_ToolCallEventsPaired ==
    \A t \in Turns : \A i \in Tasks(t) :
        Ended(sub[t][i]) =>
            LET log == sub[t][i].evts
            IN  \A k \in 1..Len(log) :
                    LET p == EventsOf(log, log[k].id, {"pending"})
                        e == EventsOf(log, log[k].id, {"completed", "error"})
                    IN  /\ Cardinality(p) = 1
                        /\ Cardinality(e) = 1
                        /\ \A a \in p, b \in e : a < b

\* C8: a stream writer that raises aborts nothing: execute_node does not fail
\* (in it only a writer call can raise), and a sub-task in which a writer
\* call raised still returns its own answer.
C8_FailedEmitAbortsNothing ==
    \A t \in Turns :
        /\ failedIn[t] # "execute"
        /\ \A i \in Tasks(t) :
               (sub[t][i].cause = "writer" /\ Ended(sub[t][i])) =>
                   (sub[t][i].pc = "returned" /\ sub[t][i].ret = "answer")

\* C9: whatever the order in which the sub-tasks ended, once execute has
\* returned intermediate_results has one entry per todo and entry i is the
\* result of todos[i].
C9_ResultsInTodoOrder ==
    \A t \in Turns : node[t] \in {"aggregate", "judge", "respond", "END"} =>
        /\ Len(intermediate_results[t]) = Len(todos[t])
        /\ \A i \in 1..Len(todos[t]) :
               /\ intermediate_results[t][i].of = i
               /\ intermediate_results[t][i].id = todos[t][i].id

\* Execute returned although the second sub-task had ended before the first.
C9_Witness ==
    \E t \in Turns :
        /\ node[t] = "aggregate"
        /\ doneOrder[t] = <<2, 1>>
        /\ Len(intermediate_results[t]) = 2

\* The sub-task reasoning loops running in the process.
RunningLoops == {<<t, i>> \in Turns \X (1..MaxTodos) : i \in Tasks(t) /\ Running(sub[t][i])}

\* C10: at every instant the number of sub-task reasoning loops running in
\* the process, over all turns in flight, is at most agent_concurrency.
C10_ProcessWideCap == Cardinality(RunningLoops) <= agent_concurrency

\* What names an internal exception.
InternalDetails == {"exception class", "exception message"}

\* C18: no result of a tool-call event delivered to the caller during a turn
\* holds the class name or the message of an internal exception.
C18_NoInternalDetailsDelivered ==
    \A t \in Turns : \A i \in Tasks(t) :
        Range(sub[t][i].shown) \cap InternalDetails = {}

-----------------------------------------------------------------------------
(* Properties of graph_query: rejection and repair *)

\* C16: as soon as _postprocess reports an unsafe keyword in an answer of the
\* model, at whatever stage, the call has returned the rejection message: no
\* repair call and no store query follow.
C16_UnsafeRejectedAtOnce ==
    gqIssue = "unsafe keyword detected" => gqPc = "done" /\ gqResult = Rejected

\* C17: one call makes at most one repair call to the model (gqLlmCalls
\* counts the first call too), whether a validation failure or a statement
\* error of the store asks for it.
C17_AtMostOneRepairCall == gqLlmCalls - 1 <= 1

\* C26: whenever a query is with the store, the text the database takes as
\* code, comments and string literals delimited as the database delimits
\* them, holds no forbidden keyword.
C26_NoWriteKeywordReachesDatabase ==
    gqPc \in {"execute", "execute2"} => ~HasForbidden(DbCode(gqCypher))

\* C29: when the first store query fails, graph_query asks the model for a
\* repair only if the error is a Neo.ClientError.Statement.* error; after
\* any other error the call is over at once with the generic failure
\* message, no further model call and no second store query.
C29_RepairOnlyOnStatementError ==
    [][\A o \in StoreOutcomes \ {"rows", "empty"} :
         GQStoreReturns(o) =>
           IF o = "statement_error"
           THEN /\ gqPc' = "exec_repair"
                /\ gqLlmCalls' = gqLlmCalls + 1
                /\ gqStoreCalls' = gqStoreCalls
           ELSE /\ gqPc' = "done"
                /\ gqResult' = Failed
                /\ gqLlmCalls' = gqLlmCalls
                /\ gqStoreCalls' = gqStoreCalls]_vars

\* A call that ended with the failure message after one store query and no
\* repair call.
C29_Witness ==
    gqPc = "done" /\ gqResult = Failed /\ gqStoreCalls = 1 /\ gqLlmCalls = 1

-----------------------------------------------------------------------------
(* Properties of the graph store *)

\* C30: a read or write of the graph store is attempted at most 3 times;
\* every attempt but the first follows a TransientError or a
\* ServiceUnavailable; an error of another class ends the call, raised, at
\* its first occurrence; the third transient error ends the call, raised;
\* and graph_query, when its query_cypher call ended so, returns the
\* generic failure message.
C30_AtMostThreeAttempts ==
    /\ call.attempts <= 3
    /\ \A i \in 1..Len(call.errors) :
         /\ i < call.attempts
              => call.errors[i] \in {"TransientError", "ServiceUnavailable"}
         /\ call.errors[i] \notin {"TransientError", "ServiceUnavailable"}
              => i = Len(call.errors) /\ call.pc = "raised"
    /\ Len(call.errors) = 3 => call.pc = "raised"
    /\ call.pc = "wait" => Len(call.errors) = call.attempts
    /\ gqPc = "done" /\ call.for # "" /\ call.pc = "raised"
         /\ call.errors[Len(call.errors)] \in {"TransientError", "ServiceUnavailable"}
         => gqResult = Failed

\* graph_query returned the failure message after its first store query
\* failed three times with a transient error, two waits apart.
C30_Witness ==
    /\ gqPc = "done"
    /\ gqResult = Failed
    /\ call.for = "execute"
    /\ call.pc = "raised"
    /\ call.attempts = 3
    /\ call.waited = 3
    /\ \A i \in 1..3 : call.errors[i] \in {"TransientError", "ServiceUnavailable"}

-----------------------------------------------------------------------------
(* Properties of the ingestion *)

IngestReturned == ingPc = "done"

\* C11: every relation that extract_entities_and_relations returns has a
\* source and a target that are names of entities in the returned list.
C11_RelationEndpointsRetained ==
    IngestReturned =>
        \A k \in 1..Len(ingRelations) :
            /\ ingRelations[k].source \in NamesOf(ingEntities)
            /\ ingRelations[k].target \in NamesOf(ingEntities)

\* Following name_map from `name`, a name that is no key is reached within
\* `steps` steps, and it is one of `names`.
RECURSIVE EndsAmong(_, _, _, _)
EndsAmong(name, name_map, names, steps) ==
    IF name \notin DOMAIN name_map THEN name \in names
    ELSE steps > 0 /\ EndsAmong(name_map[name], name_map, names, steps - 1)

\* C12: when the pipeline returns, following the combined name_map from any
\* of its keys ends, after finitely many steps, at the name of an entity that
\* was retained.
C12_NameMapEndsAtRetained ==
    IngestReturned =>
        \A key \in DOMAIN ingNameMap :
            EndsAmong(key, ingNameMap, NamesOf(ingEntities),
                      Cardinality(DOMAIN ingNameMap))

NoSelfLoop(relations) ==
    \A k \in 1..Len(relations) : relations[k].source # relations[k].target
NoDuplicate(relations) ==
    \A j, k \in 1..Len(relations) :
        (/\ relations[j].source = relations[k].source
         /\ relations[j].target = relations[k].target
         /\ relations[j].type = relations[k].type) => j = k

\* C13: whatever the list of relations and the name map, chains and cycles
\* included, remap_relations returns, and its result holds no relation from
\* a name to itself and no two relations with the same source, target and
\* type.
C13_RemapNoLoopNoDuplicate ==
    ingPc = "remapped" => NoSelfLoop(ingRelations) /\ NoDuplicate(ingRelations)

\* remap_relations returned relations for a map with a cycle of two names
\* and a key outside it that leads into it.
C13_Witness ==
    /\ ingPc = "remapped"
    /\ ingRelations # <<>>
    /\ \E a, b, c \in DOMAIN ingNameMap :
        /\ a # b /\ c \notin {a, b}
        /\ ingNameMap[a] = b /\ ingNameMap[b] = a /\ ingNameMap[c] = a

IdsMatchNames(ents) ==
    \A k \in 1..Len(ents) : ents[k].id = make_entity_id(ents[k].name)

\* C14: every entity that layer 1, layer 2 and the whole pipeline return has
\* the id make_entity_id gives its name, merged or not.
C14_IdIsHashOfName ==
    /\ ingPc \in {"dedup_llm", "done", "raised"} => IdsMatchNames(ingFirst.ents)
    /\ IngestReturned => IdsMatchNames(ingEntities)

\* The pipeline returned an entity that layer 1 merged under a name other
\* than that of its first member and that layer 2 then merged again.
C14_Witness ==
    /\ IngestReturned
    /\ \E a, b \in DOMAIN ingNameMap :
        /\ a \in DOMAIN ingFirst.map
        /\ ingNameMap[a] = b
        /\ b \notin DOMAIN ingFirst.map
        /\ ingNameMap[b] \in NamesOf(ingEntities)
    /\ IdsMatchNames(ingEntities)

\* C15: dedup_by_alias_cross_ref applied to the entities it returned gives
\* the same entities and an empty name_map.
C15_LayerOneTwiceIsNoOp ==
    ingPc = "twice" => ingEntities = ingFirst.ents /\ ingNameMap = EmptyMap

\* The second pass ran on a result whose first pass had merged three
\* entities into one.
C15_Witness ==
    /\ ingPc = "twice"
    /\ Cardinality(DOMAIN ingFirst.map) = 2
    /\ Len(ingFirst.ents) = 1

\* C32: when the pipeline returns, no name that layer 2 entered in name_map
\* as replaced (a key of name_map that names an entity of the input of
\* layer 2) is the name of an entity of the returned list.
C32_ReplacedNamesAreMerged ==
    IngestReturned =>
        \A n \in DOMAIN ingNameMap :
            n \in NamesOf(ingFirst.ents) => n \notin NamesOf(ingEntities)
-----------------------------------------------------------------------------
(* Properties of one sub-task run *)

\* The observed task, once _run_one is over.
RunEnded == sub[1] # <<>> /\ Ended(sub[1][1])

\* C19: a sub-task run makes at most one format-repair call to the model; and
\* when the run ended on an answer that parses neither as a Final Answer nor
\* as an Action, received in a step after the repair was used or as the
\* answer to the repair call, the loop returned that raw text and raised
\* nothing.
C19_OneRepairThenRawText ==
    /\ run.repair <= 1
    /\ RunEnded /\ run.last = "unparseable" /\ run.at \in {"llm", "repair"}
         => /\ run.repair = 1
            /\ run.out = "raw text"
            /\ ~sub[1][1].loopRaised

\* The repair was used in the first step, whose repaired answer called a tool;
\* the answer of the second step parsed as neither, and the run returned.
C19_Witness ==
    /\ RunEnded
    /\ sub[1][1].pc = "returned"
    /\ run.at = "llm"
    /\ run.last = "unparseable"
    /\ run.repair = 1
    /\ run.tool = 1
    /\ run.model = 3
    /\ run.out = "raw text"

\* C20: a sub-task run invokes tools at most max_steps times and the model at
\* most max_steps + 2 times, at most once with the forcing instruction; and
\* if the loop was entered and every model call and every tool call returned,
\* the loop returns an answer, the parsed Final Answer or the raw text: no
\* exception leaves it.
C20_RunReturnsWithinBudget ==
    /\ run.tool <= max_steps
    /\ run.model <= max_steps + 2
    /\ run.forced <= 1
    /\ RunEnded /\ run.model >= 1 /\ run.allReturned
         => /\ ~sub[1][1].loopRaised
            /\ run.out \in {"final answer", "raw text"}

\* C28: after a step in which the parsed action named an unknown tool, or
\* in which the tool raised, the loop goes on: the task waits for the model
\* call of the next step (the forced call after the last step), no tool
\* having been invoked for an unknown one; and in a streamed run the last
\* tool-call event delivered has status error and carries the error
\* observation.
C28_ToolFailureFeedsBack ==
    run.toolFailure # "" /\ sub[1] # <<>>
      => /\ sub[1][1].pc \in {"llm", "forced"}
         /\ writer[1] # "none"
              => /\ sub[1][1].evts # <<>>
                 /\ sub[1][1].evts[Len(sub[1][1].evts)].status = "error"
                 /\ sub[1][1].shown =
                      IF run.toolFailure = "unknown tool"
                      THEN Truncated(UnknownToolError) ELSE Truncated(ToolRaisedError)

-----------------------------------------------------------------------------
(* Properties of the cycles of a turn *)

\* C21: at every point of a turn the iteration counter is the number of
\* plan_node calls that returned; when respond starts, plan, execute,
\* aggregate and judge have each run that many times, and max_iterations
\* times if no verdict of the Judge began with SUFFICIENT.
C21_IterationCountsCycles ==
    /\ iteration[1] = plans[1]
    /\ node[1] = "respond"
         => /\ nodeRuns.execute = iteration[1]
            /\ nodeRuns.aggregate = iteration[1]
            /\ judges[1] = iteration[1]
            /\ ~sawSufficientAnyCase[1] => iteration[1] = max_iterations[1]

\* respond starts after MaxIter cycles whose verdicts were all INSUFFICIENT.
C21_Witness ==
    /\ node[1] = "respond"
    /\ ~sawSufficientAnyCase[1]
    /\ max_iterations[1] = MaxIter
    /\ nodeRuns = [execute |-> MaxIter, aggregate |-> MaxIter]

\* C22: in a streamed turn the iteration of each state event is at least that
\* of the event before it, and at most max_iterations.
C22_StateIterationsMonotonic ==
    [][writer[1] # "none"
         => /\ StateEvent(1)'.iteration >= StateEvent(1).iteration
            /\ StateEvent(1)'.iteration <= max_iterations[1]]_vars

\* A streamed turn ended whose state events carried the iterations 0, 1, 2.
C22_Witness ==
    /\ writer[1] # "none"
    /\ node[1] = "END"
    /\ StateEvent(1).iteration = 2
    /\ max_iterations[1] = 2

\* C23: no exception of a model call leaves plan_node, judge_node or
\* respond_node: when the streaming call and the fallback call both fail the
\* node still returns, so that the turn completes.
C23_FallbackFailureContained ==
    failedIn[1] \notin {"plan", "judge", "respond"}

-----------------------------------------------------------------------------
(* Properties of ChatService *)

\* The assistant rows that call t appended.
AssistantRows(t) ==
    SelectSeq(messages, LAMBDA m : m.role = "assistant" /\ m.turn = t)

\* C24: when the agent finished a turn with a final answer that is missing,
\* empty or white space, the call does not fail on it, the assistant message
\* it persists and the final answer it delivers are the apology; and no
\* assistant message with an empty content is ever stored.
C24_EmptyAnswerBecomesApology ==
    /\ \A t \in Turns :
          ask[t].blank
            => /\ ask[t].error = ""
               /\ ask[t].pc \in {"profile", "returned"}
                    => AssistantRows(t) = << Message("assistant", Apology, t) >>
               /\ ask[t].delivered # <<>>
                    => ask[t].delivered[1].final_answer = Apology
    /\ \A k \in 1..Len(messages) :
          messages[k].role = "assistant" => Strip(messages[k].content) # <<>>

\* Both calls returned, one of each kind, after an agent answer that was
\* blank: the apology is stored twice and was delivered twice.
C24_Witness ==
    /\ \A t \in Turns :
          /\ ask[t].pc = "returned"
          /\ ask[t].blank
          /\ ask[t].delivered = << [final_answer |-> Apology,
                                    assistant_message |-> Apology] >>
    /\ ask[1].streaming /\ ~ask[2].streaming
    /\ Len(SelectSeq(messages, LAMBDA m : m.content = Apology)) = 2

\* C25: the response of a call is delivered once its assistant message is
\* stored, and the profile update is not waited for: while
\* _update_profile_from_turn is under way the caller has the response.
C25_ResponseBeforeProfileUpdate ==
    \A t \in Turns :
        /\ ask[t].delivered # <<>>
             => /\ AssistantRows(t) # <<>>
                /\ AssistantRows(t)[1].content = ask[t].delivered[1].assistant_message
        /\ ask[t].pc = "profile" => ask[t].delivered # <<>>

\* C27: every round get_recent_rounds returns for the session pairs the
\* user message of a call with the assistant message of that same call.
C27_RoundsPairOwnMessages ==
    LET rounds == RecentRounds(messages, HistoryRounds)
    IN  \A k \in 1..Len(rounds) : rounds[k][1].turn = rounds[k][2].turn


-----------------------------------------------------------------------------
(* Properties of layer 1 (dedup_by_alias_cross_ref) *)

\* The name of entity i, lower-cased, has two characters or more and is a
\* lower-cased alias of entity j.
Linked(ents, i, j) ==
    /\ i # j
    /\ Len(Lower(Trim(ents[i].name))) >= 2
    /\ \E k \in 1..Len(ents[j].aliases) :
         Lower(Trim(ents[j].aliases[k])) = Lower(Trim(ents[i].name))

\* The indices that a chain of such matches, in either direction, joins to S.
RECURSIVE Chained(_, _)
Chained(ents, S) ==
    LET more == {j \in 1..Len(ents) :
                    \E i \in S : Linked(ents, i, j) \/ Linked(ents, j, i)}
    IN  IF more \subseteq S THEN S ELSE Chained(ents, S \cup more)

\* The name of the entity of the result that stands for the entity of that name.
StandsFor(res, name) == IF name \in DOMAIN res.map THEN res.map[name] ELSE name

SharesAlias(ents, i, j) ==
    \E k \in 1..Len(ents[i].aliases), l \in 1..Len(ents[j].aliases) :
        Lower(Trim(ents[i].aliases[k])) = Lower(Trim(ents[j].aliases[l]))

ClusterNames(ents, i) == {ents[k].name : k \in Chained(ents, {i})}

\* C33: for every cluster of layer 1 with more than one entity the result
\* holds exactly one entity; its name is a longest name of the cluster, its
\* aliases hold every other name of the cluster, and name_map maps each of
\* these other names to it; name_map has no other keys.
C33_OneCanonicalPerCluster ==
    ingPc = "once" =>
        /\ \A i \in 1..Len(ingEntities) :
             LET names == ClusterNames(ingEntities, i)
                 kept  == {k \in 1..Len(ingFirst.ents) : ingFirst.ents[k].name \in names}
             IN  Cardinality(names) > 1 =>
                   /\ Cardinality(kept) = 1
                   /\ \A k \in kept, n \in names :
                        /\ Len(ingFirst.ents[k].name) >= Len(n)
                        /\ n # ingFirst.ents[k].name
                             => /\ n \in Range(ingFirst.ents[k].aliases)
                                /\ n \in DOMAIN ingFirst.map
                                /\ ingFirst.map[n] = ingFirst.ents[k].name
        /\ \A n \in DOMAIN ingFirst.map :
             /\ n \notin NamesOf(ingFirst.ents)
             /\ \E i \in 1..Len(ingEntities) :
                  /\ ingEntities[i].name = n
                  /\ ingFirst.map[n] \in ClusterNames(ingEntities, i)

\* Layer 1 merged a cluster of three entities under a name that is not the
\* name of its first member.
C33_Witness ==
    /\ ingPc = "once"
    /\ Len(ingEntities) = 3
    /\ Len(ingFirst.ents) = 1
    /\ ingFirst.ents[1].name # ingEntities[1].name
    /\ Cardinality(DOMAIN ingFirst.map) = 2

-----------------------------------------------------------------------------
(* Properties of the plan *)

\* The sub_task_id that _run_one puts on the events of sub-task i of turn t.
SubTaskId(t, i) == todos[t][i].id

\* C34: the todos of a plan have pairwise distinct ids, so the events of two
\* different sub-tasks of one iteration never carry the same sub_task_id.
C34_TodoIdsDistinct ==
    \A t \in Turns :
        \A i, j \in 1..Len(todos[t]) : i # j => SubTaskId(t, i) # SubTaskId(t, j)

\* C38: after a plan step the todo list is not empty, and every todo has an
\* id, a content and the status pending; an answer with no JSON array, or
\* with an empty one, gives exactly one todo, of id "1", whose content is
\* the text of the answer.
C38_PlanGivesPendingTodos ==
    [][\A answer \in PlannerTexts :
         PlanReturns(answer) =>
           /\ todos'[1] # <<>>
           /\ \A i \in 1..Len(todos'[1]) :
                /\ DOMAIN todos'[1][i] = {"id", "content", "status"}
                /\ todos'[1][i].id \in {"1", "2", "3", "4", "7"}
                /\ todos'[1][i].status = "pending"
           /\ answer.array # "parsed" \/ answer.items = <<>>
                => todos'[1] = << [id |-> "1", content |-> answer.raw,
                                   status |-> "pending"] >>
           /\ Len(answer.items) > 0 => Len(todos'[1]) = Len(answer.items)]_vars

\* A plan step returned the one todo of the fallback for an answer that is
\* not the first of the texts.
C38_Witness ==
    /\ node[1] = "execute"
    /\ todos[1] = << [id |-> "1", content |-> "text2", status |-> "pending"] >>
-----------------------------------------------------------------------------
(* Properties of the scoped stream events *)

ResetOf(type) == IF type = "reasoning_delta" THEN "reasoning_reset" ELSE "content_reset"
IsDelta(e) == e.type \in {"reasoning_delta", "content_delta"}

\* C35: in a planning, reviewing or answering step every reasoning_delta or
\* content_delta event comes after the reset event of its kind and scope,
\* and the deltas of one kind and scope come in the order in which the model
\* calls of the step yielded their fragments.
C35_DeltasFollowResetInOrder ==
    \A p \in 1..Len(stream.log) :
        IsDelta(stream.log[p]) =>
            /\ stream.log[p].scope = Scope(stream.nd)
            /\ \E q \in 1..(p - 1) :
                 /\ stream.log[q].type = ResetOf(stream.log[p].type)
                 /\ stream.log[q].scope = stream.log[p].scope
            /\ \A q \in 1..(p - 1) :
                 stream.log[q].type = stream.log[p].type =>
                     \/ stream.log[q].call < stream.log[p].call
                     \/ /\ stream.log[q].call = stream.log[p].call
                        /\ stream.log[q].k < stream.log[p].k

\* An answering step returned after it emitted a reasoning delta and a
\* content delta.
C35_Witness ==
    /\ stream.nd = "respond"
    /\ stream.pc = "returned"
    /\ \E p, q \in 1..Len(stream.log) :
         /\ stream.log[p].type = "reasoning_delta"
         /\ stream.log[q].type = "content_delta"

\* C36: the answering content_delta events after the last answering
\* content_reset carry the fragments of one model call only.
C36_AnswerDeltasOfOneCall ==
    stream.nd = "respond" =>
        \A p, q \in 1..Len(stream.log) :
            /\ p < q
            /\ stream.log[p].type = "content_delta"
            /\ stream.log[q].type = "content_delta"
            /\ stream.log[p].call # stream.log[q].call
            => \E r \in (p + 1)..(q - 1) : stream.log[r].type = "content_reset"

-----------------------------------------------------------------------------
(* Properties of chunk_by_tokens *)

ChunksAsClaimed ==
    /\ chunker.pc \in {"loop", "returned"}
         => /\ chunker.chunk_size > 0
            /\ 0 <= chunker.overlap /\ chunker.overlap < chunker.chunk_size
    /\ chunker.pc # "idle" /\ chunker.given.given
         => chunker.overlap = chunker.given.value
    /\ \A i \in 1..Len(chunker.chunks) :
         /\ chunker.chunks[i].token_start
              = (i - 1) * (chunker.chunk_size - chunker.overlap)
         /\ chunker.chunks[i].token_start < chunker.total
         /\ chunker.chunks[i].token_end
              = IF chunker.chunks[i].token_start + chunker.chunk_size <= chunker.total
                THEN chunker.chunks[i].token_start + chunker.chunk_size
                ELSE chunker.total
    /\ chunker.pc = "returned"
         => /\ \A p \in 0..(chunker.total - 1) :
                 \E i \in 1..Len(chunker.chunks) :
                     /\ chunker.chunks[i].token_start <= p
                     /\ p < chunker.chunks[i].token_end
            /\ chunker.total = 0 => chunker.chunks = <<>>

\* C37: for chunk_size > 0 and 0 <= overlap < chunk_size, an overlap given
\* as 0 being used as given, chunk_by_tokens returns; chunk i starts at
\* token i * (chunk_size - overlap) and ends chunk_size tokens later or at
\* the end of the text; every token lies in a chunk; a text of no tokens
\* gives no chunk.
C37_ChunksCoverText ==
    /\ []ChunksAsClaimed
    /\ (chunker.pc = "loop") ~> (chunker.pc = "returned")

\* A call with overlap given as 0 and a text of
\* several chunks the last of which is cut at the end of the text.
C37_Witness ==
    /\ chunker.pc = "returned"
    /\ chunker.given = [given |-> TRUE, value |-> 0]
    /\ Len(chunker.chunks) >= 2
    /\ LET last == chunker.chunks[Len(chunker.chunks)]
       IN  last.token_end - last.token_start < chunker.chunk_size

-----------------------------------------------------------------------------
(* Properties of the events of a streamed turn *)

Terminal(e) == e.event \in {"done", "error"}
Terminals(events) == {i \in DOMAIN events : Terminal(events[i])}

\* C39: a streamed turn writes at most one terminal event (done or error),
\* nothing is written after it, a turn that is over has written exactly
\* one, and a turn in which the orchestrator raised ends with an error
\* event and has no done event.
C39_OneTerminalEventLast ==
    \A t \in Turns :
        LET events == ask[t].events IN
        /\ Cardinality(Terminals(events)) <= 1
        /\ \A i \in Terminals(events) : i = Len(events)
        /\ ask[t].pc \in {"raised", "returned"} /\ ask[t].streaming
               => Cardinality(Terminals(events)) = 1
        /\ ask[t].pc = "raised" => Terminals(events) = {Len(events)}
        /\ ask[t].error = "agent"
               => /\ events[Len(events)].event = "error"
                  /\ \A i \in DOMAIN events : events[i].event # "done"

\* The orchestrator raised after a custom and a state event had been sent.
C39_Witness ==
    /\ ask[1].pc = "raised"
    /\ ask[1].error = "agent"
    /\ \E i, j \in DOMAIN ask[1].events :
          /\ ask[1].events[i].event = "custom"
          /\ ask[1].events[j].event = "state"
    /\ ask[1].events[Len(ask[1].events)].event = "error"

\* C40: when a turn has failed with no assistant message stored for it, the
\* stored messages hold no user message of that turn.
C40_FailedTurnLeavesNoUserMessage ==
    \A t \in Turns :
        (/\ ask[t].pc = "raised"
         /\ \A i \in DOMAIN messages :
               ~(messages[i].role = "assistant" /\ messages[i].turn = t))
            => \A i \in DOMAIN messages :
                  ~(messages[i].role = "user" /\ messages[i].turn = t)

=============================================================================
